---- MODULE Spec2Model ----
(***************************************************************************)
(* The shared scratch-card deck of stevenbocheng/Scratch-off-card: the     *)
(* canonical game document games/default, the GameService operations that  *)
(* run optimistic read-validate-write transactions against it, the admin   *)
(* republish, and the scheduled cleanupStaleLocks job.                     *)
(***************************************************************************)
EXTENDS Integers, Sequences, FiniteSets, TLC

\* ------------------------------------------------------------------ bounds
MaxTicks == 2          \* clock steps of TickMs the model lets pass
MaxVersion == 3        \* committed writes to games/default the model follows
MaxAttempts == 2       \* attempts runTransaction makes before it gives up

\* ------------------------------------------------------- program constants
STALE_TIMEOUT_MS == 60000
ClientStaleMs == 45000
AutoCompleteAt == 90

\* The clock advances by the period of the scheduled job ("every 1 minutes"):
\* a lock of age TickMs is stale for the client sweep and exactly on the
\* window of the scheduled one.
TickMs == STALE_TIMEOUT_MS
StartMs == TickMs

\* Browser tabs; the admin panel is open in one of them (?admin=true).
Clients == {"tab1", "tab2"}
Admin == "tab1"
\* The uids ensureAuth can return (anonymous auth is per browser, so two tabs
\* can share one uid).
Identities == {"A", "B"}

\* The published deck has the cards DeckIds; a call can also name an id that is
\* not in the deck.
DeckIds == 1..2
CardIds == DeckIds \cup {3}
ProgressInputs == {-5, 105}

None == "none"                    \* an absent (undefined / null) lockedBy
NoTime == 0                       \* an absent lockedAt (falsy in the code)

VARIABLES
    gameExists,   \* whether the document games/default exists
    deck,         \* its deck field
    version,      \* its version: the number of committed writes
    now,          \* Date.now()
    uid,          \* the uid of each tab
    call,         \* the GameService call of each tab
    draft,        \* the admin's local generateDeck run: its config and its deck
    cards         \* the snapshot documents of the collection "cards", by id

vars == <<gameExists, deck, version, now, uid, call, draft, cards>>

\* No generateDeck run, and an empty snapshot collection.
NoDraft == [pc |-> "none"]
NoCards == <<>>

\* ------------------------------------------------------------ data model
\* GameResult, with the outcome fields folded into totalPrizeAmount.
Card(i) ==
    [id |-> i, status |-> "available", isPlayed |-> FALSE, isRevealed |-> FALSE,
     progress |-> 0, lockedBy |-> None, lockedAt |-> NoTime,
     totalPrizeAmount |-> IF i = 1 THEN 100 ELSE 0]

\* handleResetProgress: every card of the admin's deck mapped to a clean card.
cleanDeck == [i \in DeckIds |-> Card(i)]

\* Array.prototype.findIndex, 1-based, given the positions whose element
\* satisfies the predicate; 0 stands for -1.
FindIndex(matches) ==
    IF matches = {} THEN 0 ELSE CHOOSE i \in matches : \A j \in matches : i <= j

Min(a, b) == IF a < b THEN a ELSE b
Max(a, b) == IF a > b THEN a ELSE b

\* What one run of a transaction's update function does: throw, or return
\* having called transaction.update(gameRef, {deck}) or not.
Throw(msg, d) == [throw |-> msg, update |-> FALSE, deck |-> d]
Update(d) == [throw |-> "", update |-> TRUE, deck |-> d]
NoUpdate(d) == [throw |-> "", update |-> FALSE, deck |-> d]

\* ------------------------------------------------------------ GameService
\* The completion write of the GameService operations.
Completed(card) ==
    [card EXCEPT !.status = "completed", !.isPlayed = TRUE, !.isRevealed = TRUE,
                 !.progress = 100, !.lockedBy = None, !.lockedAt = NoTime]

\* Faulty variants of lockCard. The first auto-completes the held card
\* whatever its progress; the second skips the search for a held card; the
\* third does not stamp the lock; the fourth releases the held card instead of
\* completing it.
lockCardAnyProgress(exists, d, userId, cardId, t) ==
    IF ~exists THEN Throw("Game does not exist", d)
    ELSE
    LET existingIdx == FindIndex({k \in 1..Len(d) :
                                    d[k].status = "scratching" /\ d[k].lockedBy = userId})
        newDeck == IF existingIdx # 0 THEN [d EXCEPT ![existingIdx] = Completed(@)] ELSE d
        cardIndex == FindIndex({k \in 1..Len(newDeck) : newDeck[k].id = cardId})
    IN  IF cardIndex = 0 THEN Throw("Card not found", d)
        ELSE IF newDeck[cardIndex].status # "available" THEN Throw("Card is not available", d)
        ELSE Update([newDeck EXCEPT ![cardIndex] =
                        [@ EXCEPT !.status = "scratching", !.lockedBy = userId,
                                  !.lockedAt = t, !.progress = 0]])

lockCardNoAntiCheat(exists, d, userId, cardId, t) ==
    IF ~exists THEN Throw("Game does not exist", d)
    ELSE
    LET cardIndex == FindIndex({k \in 1..Len(d) : d[k].id = cardId})
    IN  IF cardIndex = 0 THEN Throw("Card not found", d)
        ELSE IF d[cardIndex].status # "available" THEN Throw("Card is not available", d)
        ELSE Update([d EXCEPT ![cardIndex] =
                        [@ EXCEPT !.status = "scratching", !.lockedBy = userId,
                                  !.lockedAt = t, !.progress = 0]])

lockCardNoTimestamp(exists, d, userId, cardId, t) ==
    IF ~exists THEN Throw("Game does not exist", d)
    ELSE
    LET existingIdx == FindIndex({k \in 1..Len(d) :
                                    d[k].status = "scratching" /\ d[k].lockedBy = userId})
        finished == existingIdx # 0 /\ d[existingIdx].progress >= AutoCompleteAt
        newDeck == IF finished THEN [d EXCEPT ![existingIdx] = Completed(@)] ELSE d
        cardIndex == FindIndex({k \in 1..Len(newDeck) : newDeck[k].id = cardId})
    IN  IF existingIdx # 0 /\ ~finished THEN Throw("User already has an active card", d)
        ELSE IF cardIndex = 0 THEN Throw("Card not found", d)
        ELSE IF newDeck[cardIndex].status # "available" THEN Throw("Card is not available", d)
        ELSE Update([newDeck EXCEPT ![cardIndex] =
                        [@ EXCEPT !.status = "scratching", !.lockedBy = userId,
                                  !.progress = 0]])

lockCardReleasing(exists, d, userId, cardId, t) ==
    IF ~exists THEN Throw("Game does not exist", d)
    ELSE
    LET existingIdx == FindIndex({k \in 1..Len(d) :
                                    d[k].status = "scratching" /\ d[k].lockedBy = userId})
        finished == existingIdx # 0 /\ d[existingIdx].progress >= AutoCompleteAt
        newDeck == IF finished
                   THEN [d EXCEPT ![existingIdx] =
                            [@ EXCEPT !.status = "available", !.progress = 0,
                                      !.lockedBy = None, !.lockedAt = NoTime]]
                   ELSE d
        cardIndex == FindIndex({k \in 1..Len(newDeck) : newDeck[k].id = cardId})
    IN  IF existingIdx # 0 /\ ~finished THEN Throw("User already has an active card", d)
        ELSE IF cardIndex = 0 THEN Throw("Card not found", d)
        ELSE IF newDeck[cardIndex].status # "available" THEN Throw("Card is not available", d)
        ELSE Update([newDeck EXCEPT ![cardIndex] =
                        [@ EXCEPT !.status = "scratching", !.lockedBy = userId,
                                  !.lockedAt = t, !.progress = 0]])

\* A faulty lockCard that builds the claimed card afresh instead of spreading
\* the stored one, losing its prize.
lockCardFreshCard(exists, d, userId, cardId, t) ==
    IF ~exists THEN Throw("Game does not exist", d)
    ELSE
    LET existingIdx == FindIndex({k \in 1..Len(d) :
                                    d[k].status = "scratching" /\ d[k].lockedBy = userId})
        finished == existingIdx # 0 /\ d[existingIdx].progress >= AutoCompleteAt
        newDeck == IF finished THEN [d EXCEPT ![existingIdx] = Completed(@)] ELSE d
        cardIndex == FindIndex({k \in 1..Len(newDeck) : newDeck[k].id = cardId})
    IN  IF existingIdx # 0 /\ ~finished THEN Throw("User already has an active card", d)
        ELSE IF cardIndex = 0 THEN Throw("Card not found", d)
        ELSE IF newDeck[cardIndex].status # "available" THEN Throw("Card is not available", d)
        ELSE Update([newDeck EXCEPT ![cardIndex] =
                        [@ EXCEPT !.status = "scratching", !.lockedBy = userId,
                                  !.lockedAt = t, !.progress = 0,
                                  !.totalPrizeAmount = 0]])

lockCard(exists, d, userId, cardId, t) ==
    IF ~exists THEN Throw("Game does not exist", d)
    ELSE
    LET existingIdx == FindIndex({k \in 1..Len(d) :
                                    d[k].status = "scratching" /\ d[k].lockedBy = userId})
        finished == existingIdx # 0 /\ d[existingIdx].progress >= AutoCompleteAt
        newDeck == IF finished
                   THEN [d EXCEPT ![existingIdx] =
                            [@ EXCEPT !.status = "completed", !.isPlayed = TRUE,
                                      !.isRevealed = TRUE, !.progress = 100,
                                      !.lockedBy = None, !.lockedAt = NoTime]]
                   ELSE d
        cardIndex == FindIndex({k \in 1..Len(newDeck) : newDeck[k].id = cardId})
    IN  IF existingIdx # 0 /\ ~finished THEN Throw("User already has an active card", d)
        ELSE IF cardIndex = 0 THEN Throw("Card not found", d)
        ELSE IF newDeck[cardIndex].status # "available" THEN Throw("Card is not available", d)
        ELSE Update([newDeck EXCEPT ![cardIndex] =
                        [@ EXCEPT !.status = "scratching", !.lockedBy = userId,
                                  !.lockedAt = t, !.progress = 0]])

\* Faulty variants of updateCardProgress: without the ownership test, and
\* without the clamp.
updateAnyCardProgress(exists, d, userId, cardId, progress) ==
    IF ~exists THEN Throw("Game does not exist", d)
    ELSE
    LET cardIndex == FindIndex({k \in 1..Len(d) : d[k].id = cardId})
    IN  IF cardIndex = 0 THEN Throw("Card not found", d)
        ELSE IF d[cardIndex].status # "scratching" THEN Throw("Card is not being scratched", d)
        ELSE Update([d EXCEPT ![cardIndex] =
                        [@ EXCEPT !.progress = Min(100, Max(0, progress))]])

updateCardProgressUnclamped(exists, d, userId, cardId, progress) ==
    IF ~exists THEN Throw("Game does not exist", d)
    ELSE
    LET cardIndex == FindIndex({k \in 1..Len(d) : d[k].id = cardId})
    IN  IF cardIndex = 0 THEN Throw("Card not found", d)
        ELSE IF d[cardIndex].lockedBy # userId THEN Throw("Not your card", d)
        ELSE IF d[cardIndex].status # "scratching" THEN Throw("Card is not being scratched", d)
        ELSE Update([d EXCEPT ![cardIndex] = [@ EXCEPT !.progress = progress]])

\* A faulty updateCardProgress that never lowers the stored progress.
updateCardProgressMonotonic(exists, d, userId, cardId, progress) ==
    IF ~exists THEN Throw("Game does not exist", d)
    ELSE
    LET cardIndex == FindIndex({k \in 1..Len(d) : d[k].id = cardId})
    IN  IF cardIndex = 0 THEN Throw("Card not found", d)
        ELSE IF d[cardIndex].lockedBy # userId THEN Throw("Not your card", d)
        ELSE IF d[cardIndex].status # "scratching" THEN Throw("Card is not being scratched", d)
        ELSE Update([d EXCEPT ![cardIndex] =
                        [@ EXCEPT !.progress = Max(@, Min(100, Max(0, progress)))]])

updateCardProgress(exists, d, userId, cardId, progress) ==
    IF ~exists THEN Throw("Game does not exist", d)
    ELSE
    LET cardIndex == FindIndex({k \in 1..Len(d) : d[k].id = cardId})
    IN  IF cardIndex = 0 THEN Throw("Card not found", d)
        ELSE IF d[cardIndex].lockedBy # userId THEN Throw("Not your card", d)
        ELSE IF d[cardIndex].status # "scratching" THEN Throw("Card is not being scratched", d)
        ELSE Update([d EXCEPT ![cardIndex] =
                        [@ EXCEPT !.progress = Min(100, Max(0, progress))]])

\* Faulty variants of completeCard: without the ownership test, and without
\* clearing the lock.
completeAnyCard(exists, d, userId, cardId) ==
    IF ~exists THEN Throw("Game does not exist", d)
    ELSE
    LET cardIndex == FindIndex({k \in 1..Len(d) : d[k].id = cardId})
    IN  IF cardIndex = 0 THEN Throw("Card not found", d)
        ELSE Update([d EXCEPT ![cardIndex] = Completed(@)])

completeCardKeepLock(exists, d, userId, cardId) ==
    IF ~exists THEN Throw("Game does not exist", d)
    ELSE
    LET cardIndex == FindIndex({k \in 1..Len(d) : d[k].id = cardId})
    IN  IF cardIndex = 0 THEN Throw("Card not found", d)
        ELSE IF d[cardIndex].lockedBy # userId THEN Throw("Not your card", d)
        ELSE Update([d EXCEPT ![cardIndex] =
                        [@ EXCEPT !.status = "completed", !.isPlayed = TRUE,
                                  !.isRevealed = TRUE, !.progress = 100]])

\* A faulty completeCard that forgets the legacy flag.
completeCardUnplayed(exists, d, userId, cardId) ==
    IF ~exists THEN Throw("Game does not exist", d)
    ELSE
    LET cardIndex == FindIndex({k \in 1..Len(d) : d[k].id = cardId})
    IN  IF cardIndex = 0 THEN Throw("Card not found", d)
        ELSE IF d[cardIndex].lockedBy # userId THEN Throw("Not your card", d)
        ELSE Update([d EXCEPT ![cardIndex] =
                        [@ EXCEPT !.status = "completed",
                                  !.isRevealed = TRUE, !.progress = 100,
                                  !.lockedBy = None, !.lockedAt = NoTime]])

completeCard(exists, d, userId, cardId) ==
    IF ~exists THEN Throw("Game does not exist", d)
    ELSE
    LET cardIndex == FindIndex({k \in 1..Len(d) : d[k].id = cardId})
    IN  IF cardIndex = 0 THEN Throw("Card not found", d)
        ELSE IF d[cardIndex].lockedBy # userId THEN Throw("Not your card", d)
        ELSE Update([d EXCEPT ![cardIndex] =
                        [@ EXCEPT !.status = "completed", !.isPlayed = TRUE,
                                  !.isRevealed = TRUE, !.progress = 100,
                                  !.lockedBy = None, !.lockedAt = NoTime]])

\* The staleness test of the client sweep, in useCards and again in the
\* transaction of forceCompleteStaleCards.
isStale(card, t) == card.lockedAt = NoTime \/ (t - card.lockedAt) > ClientStaleMs

\* Faulty variants of forceCompleteStaleCards: one returns the stale cards to
\* the pool, one trusts the id list without testing staleness again.
forceReleaseStaleCards(exists, d, staleCardIds, t) ==
    IF ~exists THEN NoUpdate(d)
    ELSE
    LET hit(i) == d[i].id \in staleCardIds /\ d[i].status = "scratching" /\ isStale(d[i], t)
        newDeck == [i \in 1..Len(d) |->
                      IF hit(i)
                      THEN [d[i] EXCEPT !.status = "available", !.progress = 0,
                                        !.lockedBy = None, !.lockedAt = NoTime]
                      ELSE d[i]]
    IN  IF \E i \in 1..Len(d) : hit(i) THEN Update(newDeck) ELSE NoUpdate(d)

forceCompleteListedCards(exists, d, staleCardIds, t) ==
    IF ~exists THEN NoUpdate(d)
    ELSE
    LET hit(i) == d[i].id \in staleCardIds /\ d[i].status = "scratching"
        newDeck == [i \in 1..Len(d) |-> IF hit(i) THEN Completed(d[i]) ELSE d[i]]
    IN  IF \E i \in 1..Len(d) : hit(i) THEN Update(newDeck) ELSE NoUpdate(d)

forceCompleteStaleCards(exists, d, staleCardIds, t) ==
    IF ~exists THEN NoUpdate(d)
    ELSE
    LET hit(i) == d[i].id \in staleCardIds /\ d[i].status = "scratching" /\ isStale(d[i], t)
        newDeck == [i \in 1..Len(d) |->
                      IF hit(i)
                      THEN [d[i] EXCEPT !.status = "completed", !.isPlayed = TRUE,
                                        !.isRevealed = TRUE, !.progress = 100,
                                        !.lockedBy = None, !.lockedAt = NoTime]
                      ELSE d[i]]
        changed == \E i \in 1..Len(d) : hit(i)
    IN  IF changed THEN Update(newDeck) ELSE NoUpdate(d)

\* Faulty variants of resetAllLocks: one resets every card that is not
\* available, completed ones included; one leaves the progress behind.
resetAllCards(exists, d) ==
    IF ~exists THEN Throw("Game does not exist", d)
    ELSE
    LET hit(i) == d[i].status # "available"
        newDeck == [i \in 1..Len(d) |->
                      IF hit(i)
                      THEN [d[i] EXCEPT !.status = "available", !.lockedBy = None,
                                        !.lockedAt = NoTime, !.progress = 0]
                      ELSE d[i]]
    IN  IF \E i \in 1..Len(d) : hit(i) THEN Update(newDeck) ELSE NoUpdate(d)

resetAllLocksKeepingProgress(exists, d) ==
    IF ~exists THEN Throw("Game does not exist", d)
    ELSE
    LET hit(i) == d[i].status = "scratching"
        newDeck == [i \in 1..Len(d) |->
                      IF hit(i)
                      THEN [d[i] EXCEPT !.status = "available", !.lockedBy = None,
                                        !.lockedAt = NoTime]
                      ELSE d[i]]
    IN  IF \E i \in 1..Len(d) : hit(i) THEN Update(newDeck) ELSE NoUpdate(d)

\* A faulty reset that, like the sweep, returns quietly when there is no game.
resetAllLocksSilently(exists, d) ==
    IF ~exists THEN NoUpdate(d)
    ELSE
    LET newDeck == [i \in 1..Len(d) |->
                      IF d[i].status = "scratching"
                      THEN [d[i] EXCEPT !.status = "available", !.lockedBy = None,
                                        !.lockedAt = NoTime, !.progress = 0]
                      ELSE d[i]]
        changed == \E i \in 1..Len(d) : d[i].status = "scratching"
    IN  IF changed THEN Update(newDeck) ELSE NoUpdate(d)

\* A faulty reset that writes the deck back whether or not a card changed.
resetAllLocksUnconditionally(exists, d) ==
    IF ~exists THEN Throw("Game does not exist", d)
    ELSE
    LET newDeck == [i \in 1..Len(d) |->
                      IF d[i].status = "scratching"
                      THEN [d[i] EXCEPT !.status = "available", !.lockedBy = None,
                                        !.lockedAt = NoTime, !.progress = 0]
                      ELSE d[i]]
    IN  Update(newDeck)

resetAllLocks(exists, d) ==
    IF ~exists THEN Throw("Game does not exist", d)
    ELSE
    LET newDeck == [i \in 1..Len(d) |->
                      IF d[i].status = "scratching"
                      THEN [d[i] EXCEPT !.status = "available", !.lockedBy = None,
                                        !.lockedAt = NoTime, !.progress = 0]
                      ELSE d[i]]
        changed == \E i \in 1..Len(d) : d[i].status = "scratching"
    IN  IF changed THEN Update(newDeck) ELSE NoUpdate(d)

\* The ids the subscription callback of useCards passes to the sweep.
staleIds(d, t) ==
    {d[i].id : i \in {j \in 1..Len(d) : d[j].status = "scratching" /\ isStale(d[j], t)}}

\* ------------------------------------------------- scheduled Cloud Function
\* Faulty variants of cleanupStaleLocks: one completes the card and leaves the
\* lock on it; one completes every scratching card, stale or not.
cleanupKeepingLock(d, t) ==
    LET hit(i) == d[i].status = "scratching" /\ d[i].lockedAt # NoTime
                  /\ t - d[i].lockedAt > STALE_TIMEOUT_MS
        newDeck == [i \in 1..Len(d) |->
                      IF hit(i)
                      THEN [d[i] EXCEPT !.status = "completed", !.isPlayed = TRUE,
                                        !.progress = 100]
                      ELSE d[i]]
    IN  IF \E i \in 1..Len(d) : hit(i) THEN Update(newDeck) ELSE NoUpdate(d)

cleanupAllLocks(d, t) ==
    LET hit(i) == d[i].status = "scratching"
        newDeck == [i \in 1..Len(d) |->
                      IF hit(i)
                      THEN [d[i] EXCEPT !.status = "completed", !.isPlayed = TRUE,
                                        !.progress = 100,
                                        !.lockedBy = None, !.lockedAt = NoTime]
                      ELSE d[i]]
    IN  IF \E i \in 1..Len(d) : hit(i) THEN Update(newDeck) ELSE NoUpdate(d)

\* A faulty job that spares a card whose owner has reported progress.
cleanupSparingActive(d, t) ==
    LET hit(i) == d[i].status = "scratching" /\ d[i].lockedAt # NoTime
                  /\ t - d[i].lockedAt > STALE_TIMEOUT_MS /\ d[i].progress = 0
        newDeck == [i \in 1..Len(d) |->
                      IF hit(i)
                      THEN [d[i] EXCEPT !.status = "completed", !.isPlayed = TRUE,
                                        !.progress = 100,
                                        !.lockedBy = None, !.lockedAt = NoTime]
                      ELSE d[i]]
        changed == \E i \in 1..Len(d) : hit(i)
    IN  IF changed THEN Update(newDeck) ELSE NoUpdate(d)

\* A faulty job that removes the stale cards from the deck.
cleanupDroppingStale(d, t) ==
    LET hit(i) == d[i].status = "scratching" /\ d[i].lockedAt # NoTime
                  /\ t - d[i].lockedAt > STALE_TIMEOUT_MS
        kept == SelectSeq(d, LAMBDA c : ~(c.status = "scratching" /\ c.lockedAt # NoTime
                                          /\ t - c.lockedAt > STALE_TIMEOUT_MS))
    IN  IF \E i \in 1..Len(d) : hit(i) THEN Update(kept) ELSE NoUpdate(d)

cleanupStaleLocks(d, t) ==
    LET hit(i) == d[i].status = "scratching" /\ d[i].lockedAt # NoTime
                  /\ t - d[i].lockedAt > STALE_TIMEOUT_MS
        newDeck == [i \in 1..Len(d) |->
                      IF hit(i)
                      THEN [d[i] EXCEPT !.status = "completed", !.isPlayed = TRUE,
                                        !.progress = 100,
                                        !.lockedBy = None, !.lockedAt = NoTime]
                      ELSE d[i]]
        changed == \E i \in 1..Len(d) : hit(i)
    IN  IF changed THEN Update(newDeck) ELSE NoUpdate(d)

\* ----------------------------------------------------------- client calls
\* One GameService call of a tab: its arguments, where its transaction stands
\* (get: about to read, commit: the update function returned a write), and,
\* once done, what it returned. again, completed and wrote are kept for
\* inspection: whether the call repeats the tab's own resolved completeCard of
\* the same card, the ids of the cards its committed write completed, and
\* whether it committed a write at all.
NoCall ==
    [op |-> "none", cardId |-> 0, progress |-> 0, staleCardIds |-> {}, again |-> FALSE,
     pc |-> "idle", readVersion |-> 0, newDeck |-> <<>>, attempts |-> 0,
     result |-> "none", err |-> "", completed |-> {}, wrote |-> FALSE]

Free(p) == call[p].pc \in {"idle", "done"}

NewCall(op, cardId, progress, ids, again) ==
    [NoCall EXCEPT !.op = op, !.cardId = cardId, !.progress = progress,
                   !.staleCardIds = ids, !.again = again, !.pc = "get"]

\* The update function of call c, run against what transaction.get returned.
updateFunction(c, userId, exists, d, t) ==
    CASE c.op = "lockCard" -> lockCard(exists, d, userId, c.cardId, t)
      [] c.op = "updateCardProgress" -> updateCardProgress(exists, d, userId, c.cardId, c.progress)
      [] c.op = "completeCard" -> completeCard(exists, d, userId, c.cardId)
      [] c.op = "forceCompleteStaleCards" -> forceCompleteStaleCards(exists, d, c.staleCardIds, t)
      [] c.op = "resetAllLocks" -> resetAllLocks(exists, d)

\* lockCard catches and returns a boolean; the others resolve or reject.
Succeeded(op) == IF op = "lockCard" THEN "true" ELSE "resolved"
Failed(op) == IF op = "lockCard" THEN "false" ELSE "rejected"

Finished(c, res, err, done) ==
    [c EXCEPT !.pc = "done", !.progress = 0, !.readVersion = 0, !.newDeck = <<>>,
              !.result = res, !.err = err, !.completed = done]

\* The ids of the cards that are completed in d2 and were not in d1.
Completes(d1, d2) ==
    {d1[i].id : i \in {j \in 1..Len(d1) :
                          d1[j].status # "completed" /\ d2[j].status = "completed"}}

\* One attempt of runTransaction for call c of tab p: transaction.get, then the
\* update function, which runs to its end without awaiting. A throw ends the
\* call; a return without a write resolves it; a write waits for its commit.
Attempt(p, c) ==
    LET r == updateFunction(c, uid[p], gameExists, deck, now)
    IN  call' = [call EXCEPT ![p] =
                    IF r.throw # "" THEN Finished(c, Failed(c.op), r.throw, {})
                    ELSE IF ~r.update THEN Finished(c, Succeeded(c.op), "", {})
                    ELSE [c EXCEPT !.pc = "commit", !.readVersion = version,
                                   !.newDeck = r.deck]]

\* The document before the admin publishes, or after a clean deck was published.
Init ==
    /\ gameExists \in BOOLEAN
    /\ deck = IF gameExists THEN cleanDeck ELSE <<>>
    /\ version = 0
    /\ now = StartMs
    /\ uid \in [Clients -> Identities]
    /\ uid[Admin] = "A"
    /\ call = [p \in Clients |-> NoCall]
    /\ draft = NoDraft
    /\ cards = NoCards

\* Time is read only to stamp a lock and to age one; it passes while a card is
\* locked.
Tick ==
    /\ now < StartMs + MaxTicks * TickMs
    /\ \E i \in 1..Len(deck) : deck[i].status = "scratching"
    /\ now' = now + TickMs
    /\ UNCHANGED <<gameExists, deck, version, uid, draft, cards, call>>

\* A faulty ensureAuth that hands back the absent user instead of rejecting.
ensureAuthOrNull(user) == [rejects |-> FALSE, uid |-> user]

\* ensureAuth: the uid of the signed-in user, or the rejection of
\* signInAnonymously when no user can be obtained (a tab whose uid is None).
ensureAuth(user) == [rejects |-> user = None, uid |-> user]

\* lockCard, updateCardProgress and completeCard await ensureAuth before
\* runTransaction, and in lockCard before its try: a rejection leaves the call
\* rejected with no transaction started.
Start(p, c) ==
    IF ensureAuth(uid[p]).rejects
    THEN call' = [call EXCEPT ![p] = Finished(c, "rejected", "Sign-in failed", {})]
    ELSE Attempt(p, c)

LockCard(p, cardId) ==
    /\ Free(p)
    /\ Start(p, NewCall("lockCard", cardId, 0, {}, FALSE))
    /\ UNCHANGED <<gameExists, deck, version, now, uid, draft, cards>>

UpdateCardProgress(p, cardId, progress) ==
    /\ Free(p)
    /\ Start(p, NewCall("updateCardProgress", cardId, progress, {}, FALSE))
    /\ UNCHANGED <<gameExists, deck, version, now, uid, draft, cards>>

CompleteCard(p, cardId) ==
    /\ Free(p)
    /\ Start(p, NewCall("completeCard", cardId, 0, {},
                        call[p].op = "completeCard" /\ call[p].cardId = cardId
                            /\ call[p].result = "resolved"))
    /\ UNCHANGED <<gameExists, deck, version, now, uid, draft, cards>>

ResetAllLocks(p) ==
    /\ Free(p)
    /\ Attempt(p, NewCall("resetAllLocks", 0, 0, {}, FALSE))
    /\ UNCHANGED <<gameExists, deck, version, now, uid, draft, cards>>

\* The onSnapshot callback of useCards: scan the delivered deck and, if any card
\* looks stale, call forceCompleteStaleCards with those ids. Its transaction
\* reads later.
Sweep(p) ==
    /\ Free(p)
    /\ gameExists
    /\ staleIds(deck, now) # {}
    /\ call' = [call EXCEPT ![p] =
                   NewCall("forceCompleteStaleCards", 0, 0, staleIds(deck, now), FALSE)]
    /\ UNCHANGED <<gameExists, deck, version, now, uid, draft, cards>>

\* forceCompleteStaleCards called with any list of ids, as a caller other
\* than useCards may. An empty list returns before the transaction starts.
ForceCompleteStaleCards(p, ids) ==
    /\ Free(p)
    /\ IF ids = {}
       THEN call' = [call EXCEPT ![p] =
                        Finished(NewCall("forceCompleteStaleCards", 0, 0, ids, FALSE),
                                 "resolved", "", {})]
       ELSE Attempt(p, NewCall("forceCompleteStaleCards", 0, 0, ids, FALSE))
    /\ UNCHANGED <<gameExists, deck, version, now, uid, draft, cards>>

\* The first read of a sweep, and every read after a lost commit.
Get(p) ==
    /\ call[p].pc = "get"
    /\ Attempt(p, call[p])
    /\ UNCHANGED <<gameExists, deck, version, now, uid, draft, cards>>

\* A faulty commit that does not validate the version that was read.
CommitUnchecked(p) ==
    /\ call[p].pc = "commit"
    /\ version < MaxVersion
    /\ deck' = call[p].newDeck
    /\ version' = version + 1
    /\ call' = [call EXCEPT ![p] =
                   [Finished(@, Succeeded(@.op), "", Completes(deck, @.newDeck))
                       EXCEPT !.wrote = TRUE]]
    /\ UNCHANGED <<gameExists, now, uid, draft, cards>>

\* The commit is accepted only if the document is still the one that was read.
Commit(p) ==
    /\ call[p].pc = "commit"
    /\ call[p].readVersion = version
    /\ version < MaxVersion
    /\ deck' = call[p].newDeck
    /\ version' = version + 1
    /\ call' = [call EXCEPT ![p] =
                   [Finished(@, Succeeded(@.op), "", Completes(deck, @.newDeck))
                       EXCEPT !.wrote = TRUE]]
    /\ UNCHANGED <<gameExists, now, uid, draft, cards>>

\* A faulty retry that sends the write of the lost attempt again instead of
\* running the update function against the document as it is now.
RetryStale(p) ==
    /\ call[p].pc = "commit"
    /\ call[p].readVersion # version
    /\ call[p].attempts + 1 < MaxAttempts
    /\ call' = [call EXCEPT ![p] = [@ EXCEPT !.readVersion = version, !.attempts = @ + 1]]
    /\ UNCHANGED <<gameExists, deck, version, now, uid, draft, cards>>

Retry(p) ==
    /\ call[p].pc = "commit"
    /\ call[p].readVersion # version
    /\ call[p].attempts + 1 < MaxAttempts
    /\ call' = [call EXCEPT ![p] =
                   [@ EXCEPT !.pc = "get", !.readVersion = 0, !.newDeck = <<>>,
                             !.attempts = @ + 1]]
    /\ UNCHANGED <<gameExists, deck, version, now, uid, draft, cards>>

\* A faulty abort that leaves the last attempt's write behind.
AbortWrites(p) ==
    /\ call[p].pc = "commit"
    /\ call[p].readVersion # version
    /\ call[p].attempts + 1 >= MaxAttempts
    /\ version < MaxVersion
    /\ deck' = call[p].newDeck
    /\ version' = version + 1
    /\ call' = [call EXCEPT ![p] = Finished(@, Failed(@.op), "aborted", {})]
    /\ UNCHANGED <<gameExists, now, uid, draft, cards>>

Abort(p) ==
    /\ call[p].pc = "commit"
    /\ call[p].readVersion # version
    /\ call[p].attempts + 1 >= MaxAttempts
    /\ call' = [call EXCEPT ![p] = Finished(@, Failed(@.op), "aborted", {})]
    /\ UNCHANGED <<gameExists, deck, version, now, uid, draft, cards>>

\* handleResetProgress: saveGameToCloud(config, cleanDeck), a blind setDoc.
SaveGameToCloud ==
    /\ version < MaxVersion
    /\ gameExists' = TRUE
    /\ deck' = cleanDeck
    /\ version' = version + 1
    /\ UNCHANGED <<now, uid, draft, cards, call>>

\* The scheduled job; its server-side transaction holds the document locked
\* from its read to its write. The specifications that count writes bound it.
CleanupStaleLocks ==
    /\ gameExists
    /\ cleanupStaleLocks(deck, now).update
    /\ deck' = cleanupStaleLocks(deck, now).deck
    /\ version' = version + 1
    /\ UNCHANGED <<gameExists, now, uid, draft, cards, call>>

\* The caller's continuation after its await: the returned value is consumed.
Return(p) ==
    /\ call[p].pc = "done"
    /\ call' = [call EXCEPT ![p] = NoCall]
    /\ UNCHANGED <<gameExists, deck, version, now, uid, draft, cards>>

\* A tab runs the continuation of a call that returned (which may start its
\* next call) before any other tab, the admin or the clock takes a step.
Handled(ps) == \A q \in ps : call[q].pc # "done"

Next ==
    \/ Handled(Clients) /\ Tick
    \/ \E p \in Clients, cardId \in CardIds :
          Handled(Clients \ {p}) /\ LockCard(p, cardId)
    \/ \E p \in Clients, cardId \in CardIds, progress \in ProgressInputs :
          Handled(Clients \ {p}) /\ UpdateCardProgress(p, cardId, progress)
    \/ \E p \in Clients, cardId \in CardIds :
          Handled(Clients \ {p}) /\ CompleteCard(p, cardId)
    \/ Handled(Clients \ {Admin}) /\ ResetAllLocks(Admin)
    \/ \E p \in Clients : Handled(Clients \ {p}) /\ Sweep(p)
    \/ \E p \in Clients : Handled(Clients) /\ Get(p)
    \/ \E p \in Clients : Handled(Clients) /\ Commit(p)
    \/ \E p \in Clients : Handled(Clients) /\ Retry(p)
    \/ \E p \in Clients : Handled(Clients) /\ Abort(p)
    \/ \E p \in Clients : Return(p)
    \/ Handled(Clients) /\ SaveGameToCloud
    \/ Handled(Clients) /\ version < MaxVersion /\ CleanupStaleLocks

Spec == Init /\ [][Next]_vars

\* ------------------------------------------------------- the claim race
\* Two tabs each call lockCard once against a freshly published deck. Of two
\* transactions only one can lose a commit, and only once, so runTransaction
\* never runs out of attempts here.
InitRace ==
    /\ gameExists = TRUE
    /\ deck = cleanDeck
    /\ version = 0
    /\ now = StartMs
    /\ uid \in [Clients -> Identities]
    /\ call = [p \in Clients |-> NoCall]
    /\ draft = NoDraft
    /\ cards = NoCards

NextRace ==
    \/ \E p \in Clients, cardId \in CardIds : call[p].pc = "idle" /\ LockCard(p, cardId)
    \/ \E p \in Clients : Get(p)
    \/ \E p \in Clients : Commit(p)
    \/ \E p \in Clients : Retry(p)

SpecRace == InitRace /\ [][NextRace]_vars

\* ------------------------------------------------------- direct calls
\* One caller uses GameService directly, with any arguments, while the admin
\* republishes and the scheduled job runs.
Caller == "tab1"
DirectProgressInputs == {-5, 50, 105}

NextDirect ==
    \/ \E cardId \in CardIds : LockCard(Caller, cardId)
    \/ \E cardId \in CardIds, progress \in DirectProgressInputs :
          UpdateCardProgress(Caller, cardId, progress)
    \/ \E cardId \in CardIds : CompleteCard(Caller, cardId)
    \/ ResetAllLocks(Caller)
    \/ \E ids \in SUBSET CardIds : ForceCompleteStaleCards(Caller, ids)
    \/ Get(Caller)
    \/ Commit(Caller)
    \/ Retry(Caller)
    \/ Abort(Caller)
    \/ Tick
    \/ SaveGameToCloud
    \/ version < MaxVersion /\ CleanupStaleLocks

SpecDirect == Init /\ [][NextDirect]_vars

\* ------------------------------------------------------- reclamation
\* The same caller and admin, who may stop at any point, with time that keeps
\* advancing while a card is locked and a scheduled job that keeps running:
\* "every 1 minutes", outside any client, its transaction retried by the
\* server until it commits.
NextLive ==
    \/ \E cardId \in CardIds : LockCard(Caller, cardId)
    \/ \E cardId \in CardIds, progress \in DirectProgressInputs :
          UpdateCardProgress(Caller, cardId, progress)
    \/ \E cardId \in CardIds : CompleteCard(Caller, cardId)
    \/ ResetAllLocks(Caller)
    \/ \E ids \in SUBSET CardIds : ForceCompleteStaleCards(Caller, ids)
    \/ Get(Caller)
    \/ Commit(Caller)
    \/ Retry(Caller)
    \/ Abort(Caller)
    \/ Tick
    \/ SaveGameToCloud
    \/ CleanupStaleLocks

SpecLive ==
    Init /\ [][NextLive]_vars /\ WF_vars(Tick) /\ WF_vars(CleanupStaleLocks)

\* Tabs of which any may be unable to sign in, playing on a published deck.
InitAuth ==
    /\ gameExists = TRUE
    /\ deck = cleanDeck
    /\ version = 0
    /\ now = StartMs
    /\ uid \in [Clients -> Identities \cup {None}]
    /\ call = [p \in Clients |-> NoCall]
    /\ draft = NoDraft
    /\ cards = NoCards

NextAuth ==
    \/ \E p \in Clients, cardId \in CardIds :
          Handled(Clients \ {p}) /\ LockCard(p, cardId)
    \/ \E p \in Clients, cardId \in CardIds, progress \in ProgressInputs :
          Handled(Clients \ {p}) /\ UpdateCardProgress(p, cardId, progress)
    \/ \E p \in Clients, cardId \in CardIds :
          Handled(Clients \ {p}) /\ CompleteCard(p, cardId)
    \/ \E p \in Clients : Handled(Clients) /\ Get(p)
    \/ \E p \in Clients : Handled(Clients) /\ Commit(p)
    \/ \E p \in Clients : Handled(Clients) /\ Retry(p)
    \/ \E p \in Clients : Handled(Clients) /\ Abort(p)
    \/ \E p \in Clients : Return(p)

SpecAuth == InitAuth /\ [][NextAuth]_vars

\* --------------------------------------------------------- deck generator
\* The values Math.random() is drawn from, in thousandths: createCardResult
\* alone is run over the finer set, a whole generateDeck over the coarser one.
RandomDraws == {0, 500, 999}
CoarseDraws == {0, 999}

MaxCards == 2

\* Math.floor(Math.random() * n) for the draw r.
RandomBelow(r, n) == (r * n) \div 1000

FakeAmounts == <<10, 20, 50, 100, 200, 500, 1000>>

getRandomFakePrize(targetAmount, r) ==
    LET valid == SelectSeq(FakeAmounts, LAMBDA a : a # targetAmount)
    IN  valid[RandomBelow(r, Len(valid)) + 1]

\* The draws of one createCardResult: split, spot1, spot2 and spot place the
\* prize (spot2 is the draw that ends the while loop, so it is a slot other
\* than spot1's); fake, first and second are the draws of each of the two rows.
\* A losing card draws nothing to place a prize.
Draws(R, isWin) ==
    LET placing == IF isWin THEN R ELSE {0}
    IN  {r \in [split : placing, spot1 : placing, spot2 : R, spot : placing,
                fake : [1..2 -> R], first : [1..2 -> R], second : [1..2 -> R]] :
            RandomBelow(r.spot2, 3) # RandomBelow(r.spot1, 3)}

\* A faulty split that rounds both parts down.
winSpotsRoundedDown(isWin, prizeAmount, r) ==
    IF ~isWin THEN <<>>
    ELSE IF prizeAmount >= 20 /\ r.split > 500
    THEN <<[index |-> RandomBelow(r.spot1, 3), amount |-> prizeAmount \div 2],
           [index |-> RandomBelow(r.spot2, 3), amount |-> prizeAmount \div 2]>>
    ELSE <<[index |-> RandomBelow(r.spot, 3), amount |-> prizeAmount]>>

\* The slots (0 and 1 the rows, 2 the bonus) that carry the prize. part1 is
\* Math.ceil(prizeAmount / 2).
winSpots(isWin, prizeAmount, r) ==
    IF ~isWin THEN <<>>
    ELSE IF prizeAmount >= 20 /\ r.split > 500
    THEN LET part1 == (prizeAmount + 1) \div 2
             part2 == prizeAmount - part1
         IN  <<[index |-> RandomBelow(r.spot1, 3), amount |-> part1],
               [index |-> RandomBelow(r.spot2, 3), amount |-> part2]>>
    ELSE <<[index |-> RandomBelow(r.spot, 3), amount |-> prizeAmount]>>

\* A faulty row whose second number may equal the first.
gameRowWithDraws(spots, prizeAmount, i, r) ==
    LET spotData == FindIndex({k \in 1..Len(spots) : spots[k].index = i})
        rowIsWinner == spotData # 0
        low == RandomBelow(r.first[i + 1], 8) + 1
        high == RandomBelow(r.second[i + 1], 10 - low) + low
    IN  [my |-> IF rowIsWinner THEN high ELSE low,
         house |-> IF rowIsWinner THEN low ELSE high,
         isWin |-> rowIsWinner,
         prize |-> IF rowIsWinner THEN spots[spotData].amount
                   ELSE getRandomFakePrize(prizeAmount, r.fake[i + 1])]

\* Row i (0 or 1) of the card: the first number drawn is the smaller one, the
\* house's on a winning row and the player's on a losing one.
gameRow(spots, prizeAmount, i, r) ==
    LET spotData == FindIndex({k \in 1..Len(spots) : spots[k].index = i})
        rowIsWinner == spotData # 0
        low == RandomBelow(r.first[i + 1], 8) + 1
        high == RandomBelow(r.second[i + 1], 9 - low) + low + 1
    IN  [my |-> IF rowIsWinner THEN high ELSE low,
         house |-> IF rowIsWinner THEN low ELSE high,
         isWin |-> rowIsWinner,
         prize |-> IF rowIsWinner THEN spots[spotData].amount
                   ELSE getRandomFakePrize(prizeAmount, r.fake[i + 1])]

\* The record createCardResult returns: it has no status, progress, lockedBy
\* or lockedAt field.
createCardResult(id, isWin, prizeAmount, r) ==
    LET spots == winSpots(isWin, prizeAmount, r)
        games == <<gameRow(spots, prizeAmount, 0, r), gameRow(spots, prizeAmount, 1, r)>>
        bonusSpotData == FindIndex({k \in 1..Len(spots) : spots[k].index = 2})
        isBonusWin == bonusSpotData # 0
        bonusPrize == IF isBonusWin THEN spots[bonusSpotData].amount ELSE 0
        calculatedTotal == (IF games[1].isWin THEN games[1].prize ELSE 0)
                           + (IF games[2].isWin THEN games[2].prize ELSE 0)
                           + (IF isBonusWin THEN bonusPrize ELSE 0)
    IN  [id |-> id, isWin |-> isWin, games |-> games, bonusPrize |-> bonusPrize,
         isBonusWin |-> isBonusWin, totalPrizeAmount |-> calculatedTotal,
         isPlayed |-> FALSE]

\* One call of createCardResult, as generateDeck makes it: a winner with a
\* tier's amount, or a loser with 0.
CardInputs == {<<TRUE, 0>>, <<TRUE, 10>>, <<TRUE, 25>>, <<TRUE, 100>>, <<FALSE, 0>>}

InitCard ==
    /\ gameExists = FALSE
    /\ deck = <<>>
    /\ version = 0
    /\ now = StartMs
    /\ uid = [p \in Clients |-> "A"]
    /\ call = [p \in Clients |-> NoCall]
    /\ draft = NoDraft
    /\ cards = NoCards

CreateCardResult(id, isWin, prizeAmount) ==
    /\ draft.pc = "none"
    /\ \E r \in Draws(RandomDraws, isWin) :
          draft' = [pc |-> "card", prizeAmount |-> prizeAmount,
                    card |-> createCardResult(id, isWin, prizeAmount, r)]
    /\ UNCHANGED <<gameExists, deck, version, now, uid, call, cards>>

NextCard ==
    \E id \in 1..MaxCards, in \in CardInputs : CreateCardResult(id, in[1], in[2])

SpecCard == InitCard /\ [][NextCard]_vars

\* generateDeck, a step at a time. The configs it is run on: totalCards and
\* tiers as the admin panel lets them be set, which bounds neither against
\* the other.
TierLists ==
    {<<>>, <<[count |-> 1, amount |-> 100]>>, <<[count |-> 2, amount |-> 10]>>,
     <<[count |-> 1, amount |-> 25], [count |-> 0, amount |-> 10]>>}

Configs == {[totalCards |-> n, tiers |-> t] : n \in 1..MaxCards, t \in TierLists}

InitDeck ==
    /\ gameExists = FALSE
    /\ deck = <<>>
    /\ version = 0
    /\ now = StartMs
    /\ uid = [p \in Clients |-> "A"]
    /\ call = [p \in Clients |-> NoCall]
    /\ draft \in {[pc |-> "tiers", config |-> c, deck |-> <<>>, tier |-> 1, i |-> 0,
                   remaining |-> 0] : c \in Configs}
    /\ cards = NoCards

\* The inner loop of tiers.forEach: one more winning card of the current tier.
PushWinner ==
    /\ draft.pc = "tiers"
    /\ draft.tier <= Len(draft.config.tiers)
    /\ draft.i < draft.config.tiers[draft.tier].count
    /\ \E r \in Draws(CoarseDraws, TRUE) :
          draft' = [draft EXCEPT
                       !.deck = Append(@, createCardResult(Len(@) + 1, TRUE,
                                   draft.config.tiers[draft.tier].amount, r)),
                       !.i = @ + 1]
    /\ UNCHANGED <<gameExists, deck, version, now, uid, call, cards>>

\* The inner loop ends: on to the next tier.
NextTier ==
    /\ draft.pc = "tiers"
    /\ draft.tier <= Len(draft.config.tiers)
    /\ draft.i >= draft.config.tiers[draft.tier].count
    /\ draft' = [draft EXCEPT !.tier = @ + 1, !.i = 0]
    /\ UNCHANGED <<gameExists, deck, version, now, uid, call, cards>>

\* const remaining = totalCards - deck.length.
CountRemaining ==
    /\ draft.pc = "tiers"
    /\ draft.tier > Len(draft.config.tiers)
    /\ draft' = [draft EXCEPT !.pc = "fill", !.i = 0,
                              !.remaining = draft.config.totalCards - Len(draft.deck)]
    /\ UNCHANGED <<gameExists, deck, version, now, uid, call, cards>>

PushLoser ==
    /\ draft.pc = "fill"
    /\ draft.i < draft.remaining
    /\ \E r \in Draws(CoarseDraws, FALSE) :
          draft' = [draft EXCEPT
                       !.deck = Append(@, createCardResult(Len(@) + 1, FALSE, 0, r)),
                       !.i = @ + 1]
    /\ UNCHANGED <<gameExists, deck, version, now, uid, call, cards>>

\* The fill loop ends; the shuffle starts at the last index (0-based).
StartShuffle ==
    /\ draft.pc = "fill"
    /\ draft.i >= draft.remaining
    /\ draft' = [draft EXCEPT !.pc = "shuffle", !.i = Len(draft.deck) - 1]
    /\ UNCHANGED <<gameExists, deck, version, now, uid, call, cards>>

\* One round of the Fisher-Yates loop: swap deck[i] and deck[j], j in 0..i.
ShuffleStep ==
    /\ draft.pc = "shuffle"
    /\ draft.i > 0
    /\ \E r \in CoarseDraws :
          LET j == RandomBelow(r, draft.i + 1)
          IN  draft' = [draft EXCEPT
                           !.deck = [@ EXCEPT ![draft.i + 1] = draft.deck[j + 1],
                                              ![j + 1] = draft.deck[draft.i + 1]],
                           !.i = @ - 1]
    /\ UNCHANGED <<gameExists, deck, version, now, uid, call, cards>>

\* return deck.map((card, index) => ({ ...card, id: index + 1 })).
ReassignIds ==
    /\ draft.pc = "shuffle"
    /\ draft.i <= 0
    /\ draft' = [draft EXCEPT
                    !.pc = "done",
                    !.deck = [k \in 1..Len(@) |-> [@[k] EXCEPT !.id = k]]]
    /\ UNCHANGED <<gameExists, deck, version, now, uid, call, cards>>

NextDeck ==
    \/ PushWinner
    \/ NextTier
    \/ CountRemaining
    \/ PushLoser
    \/ StartShuffle
    \/ ShuffleStep
    \/ ReassignIds

SpecDeck == InitDeck /\ [][NextDeck]_vars

\* -------------------------------------------------------------- snapshots
MaxSnapshots == 2

\* A faulty saveCard that writes every snapshot under one fixed id.
saveCardOverwriting(collection, data) ==
    IF collection = <<>> THEN <<data>> ELSE [collection EXCEPT ![1] = data]

\* addDoc: the data becomes a new document under an id generated for it, here
\* the next position of the collection.
saveCard(collection, data) == Append(collection, data)

\* getDoc on cards/id: the snapshot, or null.
NoSnapshot == [null |-> TRUE]

getCard(collection, id) ==
    IF id \in DOMAIN collection THEN collection[id] ELSE NoSnapshot

\* handleShareCloudLink: saveCard(config, deck) with the deck the tab shows.
SaveCard ==
    /\ Len(cards) < MaxSnapshots
    /\ cards' = saveCard(cards, [deck |-> deck, createdAt |-> now])
    /\ UNCHANGED <<gameExists, deck, version, now, uid, call, draft>>

\* One tab playing and sharing on a published deck.
InitSnap ==
    /\ gameExists = TRUE
    /\ deck = cleanDeck
    /\ version = 0
    /\ now = StartMs
    /\ uid = [p \in Clients |-> "A"]
    /\ call = [p \in Clients |-> NoCall]
    /\ draft = NoDraft
    /\ cards = NoCards

NextSnap ==
    \/ \E cardId \in DeckIds : LockCard(Caller, cardId)
    \/ \E cardId \in DeckIds, progress \in ProgressInputs :
          UpdateCardProgress(Caller, cardId, progress)
    \/ \E cardId \in DeckIds : CompleteCard(Caller, cardId)
    \/ ResetAllLocks(Caller)
    \/ Sweep(Caller)
    \/ Get(Caller)
    \/ Commit(Caller)
    \/ Retry(Caller)
    \/ Abort(Caller)
    \/ Tick
    \/ SaveGameToCloud
    \/ version < MaxVersion /\ CleanupStaleLocks
    \/ SaveCard

SpecSnap == InitSnap /\ [][NextSnap]_vars

\* ------------------------------------------------------------ stored decks
\* Decks as the document may hold them, cards written before lockedAt existed
\* included: each card available, completed, or scratching under an identity
\* with lockedAt absent or set when the clock starts.
StoredCards(i) ==
    {Card(i), Completed(Card(i))}
    \cup {[Card(i) EXCEPT !.status = "scratching", !.lockedBy = u, !.lockedAt = t] :
             u \in Identities, t \in {NoTime, StartMs}}

InitStored ==
    /\ gameExists = TRUE
    /\ deck \in {d \in [DeckIds -> UNION {StoredCards(i) : i \in DeckIds}] :
                    \A i \in DeckIds : d[i] \in StoredCards(i)}
    /\ version = 0
    /\ now = StartMs
    /\ uid = [p \in Clients |-> "A"]
    /\ call = [p \in Clients |-> NoCall]
    /\ draft = NoDraft
    /\ cards = NoCards

\* The two sweeps over a stored deck.
NextStored ==
    \/ Handled(Clients) /\ Tick
    \/ \E p \in Clients : Handled(Clients \ {p}) /\ Sweep(p)
    \/ \E p \in Clients : Handled(Clients) /\ Get(p)
    \/ \E p \in Clients : Handled(Clients) /\ Commit(p)
    \/ \E p \in Clients : Handled(Clients) /\ Retry(p)
    \/ \E p \in Clients : Handled(Clients) /\ Abort(p)
    \/ \E p \in Clients : Return(p)
    \/ Handled(Clients) /\ version < MaxVersion /\ CleanupStaleLocks

SpecStored == InitStored /\ [][NextStored]_vars

\* ------------------------------------------------------- a fresh deck
\* What a read of the document finds where a card was stored without a status
\* or a progress: undefined, which equals no status and is below every number.
NoStatus == "undefined"
NoProgress == -1

\* The card of the document that setDoc makes of card c of the admin's deck,
\* as a transaction reads it back: the fields c has, and nothing for the rest.
stored(c) ==
    [id |-> c.id,
     status |-> IF "status" \in DOMAIN c THEN c.status ELSE NoStatus,
     isPlayed |-> c.isPlayed,
     isRevealed |-> IF "isRevealed" \in DOMAIN c THEN c.isRevealed ELSE FALSE,
     progress |-> IF "progress" \in DOMAIN c THEN c.progress ELSE NoProgress,
     lockedBy |-> IF "lockedBy" \in DOMAIN c THEN c.lockedBy ELSE None,
     lockedAt |-> IF "lockedAt" \in DOMAIN c THEN c.lockedAt ELSE NoTime,
     totalPrizeAmount |-> c.totalPrizeAmount]

\* saveGameToCloud(config, deck): setDoc replaces the document.
saveGameToCloud(d) == [k \in 1..Len(d) |-> stored(d[k])]

\* handleSaveToCloud: the admin tab's deck state is published as it is, be it
\* the deck generateDeck returned to regenerateDeckHandler or the copy of the
\* document's deck that the subscription delivered last.
HandleSaveToCloud ==
    /\ draft.pc \in {"done", "published", "synced"}
    /\ version < MaxVersion
    /\ gameExists' = TRUE
    /\ deck' = saveGameToCloud(draft.deck)
    /\ version' = version + 1
    /\ draft' = [draft EXCEPT !.pc = IF @ = "synced" THEN @ ELSE "published"]
    /\ UNCHANGED <<now, uid, cards, call>>

\* The admin has regenerated the deck and publishes it while identity B, in
\* the other tab, has card 1 of the deck in use locked. The decks are two that
\* generateDeck returns for one winner of 100 among two cards: the winner
\* shuffled to the first place or to the second, the prize on the bonus slot.
FixedDraws(spot) ==
    [split |-> 0, spot1 |-> 0, spot2 |-> 999, spot |-> spot,
     fake |-> [k \in 1..2 |-> 0], first |-> [k \in 1..2 |-> 0],
     second |-> [k \in 1..2 |-> 0]]

FreshConfig == [totalCards |-> 2, tiers |-> <<[count |-> 1, amount |-> 100]>>]

GeneratedDecks ==
    LET winner(id) == createCardResult(id, TRUE, 100, FixedDraws(999))
        loser(id) == createCardResult(id, FALSE, 0, FixedDraws(0))
    IN  {<<winner(1), loser(2)>>, <<loser(1), winner(2)>>}

InitFresh ==
    /\ gameExists = TRUE
    /\ deck = [cleanDeck EXCEPT ![1] = [@ EXCEPT !.status = "scratching", !.lockedBy = "B",
                                                 !.lockedAt = StartMs]]
    /\ version = 0
    /\ now = StartMs
    /\ uid = [p \in Clients |-> IF p = Admin THEN "A" ELSE "B"]
    /\ call = [p \in Clients |-> NoCall]
    /\ draft \in {[pc |-> "done", config |-> FreshConfig, deck |-> d, tier |-> 2, i |-> 0,
                   remaining |-> 1] : d \in GeneratedDecks}
    /\ cards = NoCards

NextFresh ==
    \/ Handled(Clients) /\ HandleSaveToCloud
    \/ \E p \in Clients, cardId \in DeckIds :
          Handled(Clients \ {p}) /\ LockCard(p, cardId)
    \/ \E p \in Clients, cardId \in DeckIds, progress \in ProgressInputs :
          Handled(Clients \ {p}) /\ UpdateCardProgress(p, cardId, progress)
    \/ \E p \in Clients, cardId \in DeckIds :
          Handled(Clients \ {p}) /\ CompleteCard(p, cardId)
    \/ \E p \in Clients : Handled(Clients) /\ Get(p)
    \/ \E p \in Clients : Handled(Clients) /\ Commit(p)
    \/ \E p \in Clients : Handled(Clients) /\ Retry(p)
    \/ \E p \in Clients : Handled(Clients) /\ Abort(p)
    \/ \E p \in Clients : Return(p)

SpecFresh == InitFresh /\ [][NextFresh]_vars

\* ------------------------------------------------- publishing a copy
\* migrateCard: a stored card without a status gets one from isPlayed.
migrateCard(card) ==
    IF card.status = NoStatus
    THEN [card EXCEPT !.status = IF card.isPlayed THEN "completed" ELSE "available",
                      !.progress = IF card.isPlayed THEN 100 ELSE 0]
    ELSE card

\* The onSnapshot callback of useCards in the admin's tab: setCards with the
\* deck of the document as it is now. Deliveries are asynchronous, and none is
\* handled while the confirm dialog of handleSaveToCloud is open, so the copy
\* may be behind the document when it is published.
Deliver ==
    /\ gameExists
    /\ draft # [pc |-> "synced", deck |-> [k \in 1..Len(deck) |-> migrateCard(deck[k])]]
    /\ draft' = [pc |-> "synced", deck |-> [k \in 1..Len(deck) |-> migrateCard(deck[k])]]
    /\ UNCHANGED <<gameExists, deck, version, now, uid, call, cards>>

\* The admin's tab has loaded the published deck; both tabs play while the
\* admin publishes configuration changes.
InitCopy ==
    /\ gameExists = TRUE
    /\ deck = cleanDeck
    /\ version = 0
    /\ now = StartMs
    /\ uid = [p \in Clients |-> IF p = Admin THEN "A" ELSE "B"]
    /\ call = [p \in Clients |-> NoCall]
    /\ draft = [pc |-> "synced", deck |-> cleanDeck]
    /\ cards = NoCards

NextCopy ==
    \/ Handled(Clients) /\ Tick
    \/ Handled(Clients) /\ Deliver
    \/ Handled(Clients) /\ HandleSaveToCloud
    \/ \E p \in Clients, cardId \in DeckIds :
          Handled(Clients \ {p}) /\ LockCard(p, cardId)
    \/ \E p \in Clients, cardId \in DeckIds :
          Handled(Clients \ {p}) /\ CompleteCard(p, cardId)
    \/ \E p \in Clients : Handled(Clients \ {p}) /\ Sweep(p)
    \/ \E p \in Clients : Handled(Clients) /\ Get(p)
    \/ \E p \in Clients : Handled(Clients) /\ Commit(p)
    \/ \E p \in Clients : Handled(Clients) /\ Retry(p)
    \/ \E p \in Clients : Handled(Clients) /\ Abort(p)
    \/ \E p \in Clients : Return(p)

SpecCopy == InitCopy /\ [][NextCopy]_vars

\* ------------------------------------------------- viewing a snapshot
\* The tab that opens a share link (?id=...): useCards fetches the snapshot
\* once and the tab shows its deck, isViewOnly being true.
Viewer == "tab2"

OpenSnapshot(id) ==
    /\ draft = NoDraft
    /\ getCard(cards, id) # NoSnapshot
    /\ draft' = [pc |-> "viewing",
                 deck |-> [k \in 1..Len(getCard(cards, id).deck) |->
                             migrateCard(getCard(cards, id).deck[k])]]
    /\ UNCHANGED <<gameExists, deck, version, now, uid, call, cards>>

\* A click on card cardId of the grid the viewing tab shows, and
\* handleSelectCard after it, neither of which consults isViewOnly: a played
\* card or one locked by someone else is not selected, the tab's own card or
\* its unfinished active card is entered without a call, and any other card
\* is claimed with GameService.lockCard, on games/default.
HandleSelectCard(p, cardId) ==
    LET shown == draft.deck
        idx == FindIndex({k \in 1..Len(shown) : shown[k].id = cardId})
        card == shown[idx]
        isPlayed == card.isPlayed \/ card.status = "completed"
        isLockedByOther == card.status = "scratching" /\ card.lockedBy # None
                           /\ card.lockedBy # uid[p]
        mine == card.status = "scratching" /\ card.lockedBy = uid[p]
        myActiveCard == FindIndex({k \in 1..Len(shown) :
                                     shown[k].status = "scratching"
                                        /\ shown[k].lockedBy = uid[p]})
    IN  /\ draft.pc = "viewing"
        /\ idx # 0
        /\ ~isPlayed /\ ~isLockedByOther
        /\ uid[p] # None
        /\ ~mine
        /\ ~(myActiveCard # 0 /\ shown[myActiveCard].progress < AutoCompleteAt)
        /\ Free(p)
        /\ Start(p, NewCall("lockCard", cardId, 0, {}, FALSE))
        /\ UNCHANGED <<gameExists, deck, version, now, uid, draft, cards>>

\* The admin's tab plays on the live deck and shares snapshots of it; the
\* other tab opens one.
InitView ==
    /\ gameExists = TRUE
    /\ deck = cleanDeck
    /\ version = 0
    /\ now = StartMs
    /\ uid = [p \in Clients |-> IF p = Admin THEN "A" ELSE "B"]
    /\ call = [p \in Clients |-> NoCall]
    /\ draft = NoDraft
    /\ cards = NoCards

NextView ==
    \/ \E cardId \in DeckIds : Handled({Viewer}) /\ LockCard(Admin, cardId)
    \/ \E cardId \in DeckIds : Handled({Viewer}) /\ CompleteCard(Admin, cardId)
    \/ Handled(Clients) /\ SaveCard
    \/ \E id \in 1..MaxSnapshots : Handled(Clients) /\ OpenSnapshot(id)
    \/ \E cardId \in DeckIds : Handled({Admin}) /\ HandleSelectCard(Viewer, cardId)
    \/ \E p \in Clients : Handled(Clients) /\ Get(p)
    \/ \E p \in Clients : Handled(Clients) /\ Commit(p)
    \/ \E p \in Clients : Handled(Clients) /\ Retry(p)
    \/ \E p \in Clients : Handled(Clients) /\ Abort(p)
    \/ \E p \in Clients : Return(p)

SpecView == InitView /\ [][NextView]_vars

\* ------------------------------------------------------------ idle sweeps
\* Two tabs that claim cards, sweep with any list of the deck's ids, the empty
\* one included, and reset, beside the scheduled job: sweeps and resets that
\* find nothing to do run next to transactions that wait on their commit.
NextSweeps ==
    \/ Handled(Clients) /\ Tick
    \/ \E p \in Clients, cardId \in DeckIds :
          Handled(Clients \ {p}) /\ LockCard(p, cardId)
    \/ \E p \in Clients, ids \in SUBSET DeckIds :
          Handled(Clients \ {p}) /\ ForceCompleteStaleCards(p, ids)
    \/ Handled(Clients \ {Admin}) /\ ResetAllLocks(Admin)
    \/ \E p \in Clients : Handled(Clients) /\ Get(p)
    \/ \E p \in Clients : Handled(Clients) /\ Commit(p)
    \/ \E p \in Clients : Handled(Clients) /\ Retry(p)
    \/ \E p \in Clients : Handled(Clients) /\ Abort(p)
    \/ \E p \in Clients : Return(p)
    \/ Handled(Clients) /\ version < MaxVersion /\ CleanupStaleLocks

SpecSweeps == InitRace /\ [][NextSweeps]_vars

\* ------------------------------------------------------------- properties
\* The cards identity u holds: scratching and locked by u.
HeldBy(u) == {i \in 1..Len(deck) : deck[i].status = "scratching" /\ deck[i].lockedBy = u}

\* The position in the committed deck of the card a call of tab p names.
Target(p) == FindIndex({k \in 1..Len(deck) : deck[k].id = call[p].cardId})

\* Steps in which the transaction of a call of tab p reads the document and
\* runs its update function: the first attempt, made as the call starts, or a
\* later one. The call the step leaves in call'[p] names the operation.
LockRead(p) ==
    /\ call'[p].op = "lockCard"
    /\ LockCard(p, call'[p].cardId) \/ Get(p)

CompleteRead(p) ==
    /\ call'[p].op = "completeCard"
    /\ CompleteCard(p, call'[p].cardId) \/ Get(p)

ForceRead(p) == call[p].op = "forceCompleteStaleCards" /\ Get(p)

\* Any step of a lockCard call of tab p.
LockStep(p) ==
    /\ call'[p].op = "lockCard"
    /\ LockCard(p, call'[p].cardId) \/ Get(p) \/ Commit(p) \/ Retry(p) \/ Abort(p)

DocUnchanged == UNCHANGED <<gameExists, deck, version>>

Returned(p, op, result) ==
    call[p].pc = "done" /\ call[p].op = op /\ call[p].result = result

\* C1: when two tabs of different identities call lockCard on the same card of
\* a published, available deck, in any interleaving of their transactions,
\* they never both return true; once both have returned exactly one returned
\* true, and the card is scratching and locked by that winner.
C1_ClaimExclusivity ==
    \A p, q \in Clients :
        (p # q /\ uid[p] # uid[q] /\ call[p].op = "lockCard" /\ call[q].op = "lockCard"
              /\ call[p].cardId = call[q].cardId /\ call[p].cardId \in DeckIds)
        => /\ ~(Returned(p, "lockCard", "true") /\ Returned(q, "lockCard", "true"))
           /\ (call[p].pc = "done" /\ call[q].pc = "done")
                 => (Returned(p, "lockCard", "true") \/ Returned(q, "lockCard", "true"))
           /\ Returned(p, "lockCard", "true")
                 => (deck[Target(p)].status = "scratching"
                        /\ deck[Target(p)].lockedBy = uid[p])

\* Both calls read the card available, one commit won, and the loser returned
\* false from its second attempt.
C1_Witness ==
    \E p, q \in Clients :
        /\ uid[p] # uid[q]
        /\ call[p].cardId = call[q].cardId
        /\ Returned(p, "lockCard", "true")
        /\ Returned(q, "lockCard", "false")
        /\ call[q].attempts = 1
        /\ call[q].err = "Card is not available"
        /\ deck[Target(p)].lockedBy = uid[p]

\* C2: a lockCard attempt by a tab whose identity holds a scratching card with
\* progress below 90 returns false and leaves the document as it was.
C2_OneActiveCardRejection ==
    [][\A p \in Clients :
          ((\E i \in HeldBy(uid[p]) : deck[i].progress < AutoCompleteAt) /\ LockRead(p))
          => (Returned(p, "lockCard", "false")' /\ DocUnchanged)]_vars

\* The holder asked for a second card that is available, and was refused.
C2_Witness ==
    \E p \in Clients :
        /\ Returned(p, "lockCard", "false")
        /\ call[p].err = "User already has an active card"
        /\ Target(p) # 0
        /\ deck[Target(p)].status = "available"
        /\ \E i \in HeldBy(uid[p]) : deck[i].progress < AutoCompleteAt

\* C3: in every reachable state each identity is the lockedBy of at most one
\* scratching card.
C3_AtMostOneScratchingCard ==
    \A u \in Identities : Cardinality(HeldBy(u)) <= 1

\* Two tabs of one identity raced for two different cards: one commit won, and
\* the other tab's retry found the identity's card and returned false.
C3_Witness ==
    \E p, q \in Clients :
        /\ p # q /\ uid[p] = uid[q]
        /\ Returned(q, "lockCard", "false")
        /\ call[q].attempts >= 1
        /\ call[q].err = "User already has an active card"
        /\ Target(q) # 0 /\ deck[Target(q)].status = "available"
        /\ Cardinality(HeldBy(uid[q])) = 1

\* C4: when a lockCard of an identity that holds a scratching card commits, the
\* held card had progress of at least 90 and is not the target, and the one
\* write both completes it (isPlayed, progress 100, lock cleared) and makes
\* the target scratching and locked by the caller, every other card staying
\* as it was: afterwards the caller holds the target and nothing else.
C4_AutoResolveIsAtomic ==
    [][\A p \in Clients :
          (HeldBy(uid[p]) # {} /\ call[p].op = "lockCard" /\ Commit(p))
          => \A old \in HeldBy(uid[p]) :
               /\ deck[old].progress >= AutoCompleteAt
               /\ Target(p) \notin {0, old}
               /\ deck'[old] = Completed(deck[old])
               /\ deck'[Target(p)].status = "scratching"
               /\ deck'[Target(p)].lockedBy = uid[p]
               /\ \A i \in 1..Len(deck) : i \notin {old, Target(p)} => deck'[i] = deck[i]
               /\ HeldBy(uid[p])' = {Target(p)}]_vars

\* A lockCard returned true and its write completed another card.
C4_Witness ==
    \E p \in Clients :
        /\ Returned(p, "lockCard", "true")
        /\ call[p].completed # {}
        /\ HeldBy(uid[p]) = {Target(p)}
        /\ \A i \in 1..Len(deck) :
              deck[i].id \in call[p].completed
              => deck[i].status = "completed" /\ deck[i].lockedBy = None

\* C5: a lockCard call changes the document only in the step in which it
\* returns true; a call that returns false, for whatever reason, has written
\* nothing, and in particular has not completed the caller's held card.
C5_FailedLockHasNoEffect ==
    [][\A p \in Clients :
          LockStep(p) => (DocUnchanged \/ Returned(p, "lockCard", "true")')]_vars

\* The caller holds a card with progress of at least 90 and asked for that
\* same card: refused, and the held card is still scratching.
C5_Witness ==
    \E p \in Clients :
        /\ Returned(p, "lockCard", "false")
        /\ call[p].err = "Card is not available"
        /\ Target(p) \in HeldBy(uid[p])
        /\ deck[Target(p)].progress >= AutoCompleteAt

\* C6: unless the admin republishes the deck, a card whose committed status is
\* completed keeps that status in every step, with lockedBy and lockedAt
\* absent.
C6_CompletedIsPermanent ==
    [][SaveGameToCloud
       \/ \A i \in 1..Len(deck) :
             deck[i].status = "completed"
             => /\ deck'[i].status = "completed"
                /\ deck'[i].lockedBy = None
                /\ deck'[i].lockedAt = NoTime]_vars

\* A lockCard that named a completed card was refused.
C6_Witness ==
    \E p \in Clients :
        /\ Returned(p, "lockCard", "false")
        /\ call[p].err = "Card is not available"
        /\ deck[Target(p)].status = "completed"
        /\ deck[Target(p)].lockedBy = None

\* C7: when the transaction of forceCompleteStaleCards, run by any tab, reads a
\* listed card that is scratching with a lock older than the client window,
\* the write it prepares has that card completed (isPlayed, progress 100,
\* lock cleared); and the commit of the call writes exactly what was prepared.
C7_StaleCardsAreCompleted ==
    [][\A p \in Clients :
          /\ ForceRead(p)
             => \A i \in 1..Len(deck) :
                   (deck[i].id \in call[p].staleCardIds /\ deck[i].status = "scratching"
                       /\ now - deck[i].lockedAt > ClientStaleMs)
                   => /\ call'[p].pc = "commit"
                      /\ call'[p].newDeck[i].status = "completed"
                      /\ call'[p].newDeck[i].isPlayed
                      /\ call'[p].newDeck[i].progress = 100
                      /\ call'[p].newDeck[i].lockedBy = None
                      /\ call'[p].newDeck[i].lockedAt = NoTime
          /\ (call[p].op = "forceCompleteStaleCards" /\ Commit(p))
             => deck' = call[p].newDeck]_vars

\* A sweep resolved and its write completed a card.
C7_Witness ==
    \E p \in Clients :
        /\ Returned(p, "forceCompleteStaleCards", "resolved")
        /\ call[p].completed # {}
        /\ \A i \in 1..Len(deck) :
              deck[i].id \in call[p].completed
              => /\ deck[i].id \in call[p].staleCardIds
                 /\ deck[i].status = "completed" /\ deck[i].isPlayed
                 /\ deck[i].progress = 100 /\ deck[i].lockedBy = None

\* C8: a card that, in the state the transaction of forceCompleteStaleCards
\* reads, is not scratching, or has a lock no older than the client window, is
\* the same in the write the call prepares, listed or not; and when no card is
\* to be completed the call resolves without writing.
C8_SweepRevalidates ==
    [][\A p \in Clients :
          ForceRead(p)
          => /\ \A i \in 1..Len(deck) :
                   (deck[i].status # "scratching"
                       \/ (deck[i].lockedAt # NoTime /\ now - deck[i].lockedAt <= ClientStaleMs))
                   => (call'[p].pc = "commit" => call'[p].newDeck[i] = deck[i])
             /\ call'[p].pc = "commit" \/ Returned(p, "forceCompleteStaleCards", "resolved")'
             /\ DocUnchanged]_vars

\* A sweep whose list named a card that was stale when the list was made
\* resolved without completing anything: the card is scratching again under a
\* fresh lock, held by an identity other than the sweeper's.
C8_Witness ==
    \E p \in Clients :
        /\ Returned(p, "forceCompleteStaleCards", "resolved")
        /\ call[p].completed = {}
        /\ \E i \in 1..Len(deck) :
              /\ deck[i].id \in call[p].staleCardIds
              /\ deck[i].status = "scratching"
              /\ deck[i].lockedBy # uid[p]
              /\ now - deck[i].lockedAt <= ClientStaleMs

\* C9: a completeCard attempt that reads the card locked by anyone or no one
\* other than the caller is rejected and writes nothing; a completeCard that
\* commits was the locker's, and its write is the card completed (isPlayed,
\* isRevealed, progress 100, lock cleared) with the rest of the deck as it was.
C9_CompleteIsOwnerOnly ==
    [][\A p \in Clients :
          /\ CompleteRead(p)
             => LET i == FindIndex({k \in 1..Len(deck) : deck[k].id = call'[p].cardId})
                IN  (i # 0 /\ deck[i].lockedBy # uid[p])
                    => (Returned(p, "completeCard", "rejected")' /\ DocUnchanged)
          /\ (call[p].op = "completeCard" /\ Commit(p))
             => /\ deck[Target(p)].lockedBy = uid[p]
                /\ deck' = [deck EXCEPT ![Target(p)] = Completed(@)]]_vars

\* A tab asked to complete a card another identity is scratching.
C9_Witness ==
    \E p \in Clients :
        /\ Returned(p, "completeCard", "rejected")
        /\ call[p].err = "Not your card"
        /\ deck[Target(p)].status = "scratching"
        /\ deck[Target(p)].lockedBy \notin {None, uid[p]}

\* C10 as stated: a completeCard that repeats the tab's own resolved
\* completeCard of the same card resolves too.
C10_Original ==
    \A p \in Clients :
        (call[p].pc = "done" /\ call[p].op = "completeCard" /\ call[p].again)
        => call[p].result = "resolved"

\* C10, amended: a completeCard attempt that reads the card completed is
\* rejected with "Not your card" and writes nothing, so the card stays
\* completed and the document is the one the first call left.
C10_RepeatedCompleteIsRejected ==
    [][\A p \in Clients :
          CompleteRead(p)
          => LET i == FindIndex({k \in 1..Len(deck) : deck[k].id = call'[p].cardId})
             IN  (i # 0 /\ deck[i].status = "completed")
                 => /\ Returned(p, "completeCard", "rejected")'
                    /\ call'[p].err = "Not your card"
                    /\ DocUnchanged]_vars

\* The former locker's second completeCard was rejected; the card is completed.
C10_Witness ==
    \E p \in Clients :
        /\ Returned(p, "completeCard", "rejected")
        /\ call[p].again
        /\ call[p].err = "Not your card"
        /\ deck[Target(p)].status = "completed"

\* The reading steps of an updateCardProgress call of tab p.
UpdateRead(p) ==
    /\ call'[p].op = "updateCardProgress"
    /\ \/ \E progress \in ProgressInputs \cup DirectProgressInputs :
             UpdateCardProgress(p, call'[p].cardId, progress)
       \/ Get(p)

\* C11: an updateCardProgress attempt is rejected, and writes nothing, unless
\* the document it reads exists and has the card scratching and locked by the
\* caller; and an updateCardProgress that commits writes over a card that is
\* scratching and the caller's, leaving every other card as it was.
C11_ProgressIsOwnerOnly ==
    [][\A p \in Clients :
          /\ UpdateRead(p)
             => LET i == FindIndex({k \in 1..Len(deck) : deck[k].id = call'[p].cardId})
                IN  ~(gameExists /\ i # 0 /\ deck[i].status = "scratching"
                          /\ deck[i].lockedBy = uid[p])
                    => (Returned(p, "updateCardProgress", "rejected")' /\ DocUnchanged)
          /\ (call[p].op = "updateCardProgress" /\ Commit(p))
             => /\ deck[Target(p)].status = "scratching"
                /\ deck[Target(p)].lockedBy = uid[p]
                /\ \A j \in 1..Len(deck) : j # Target(p) => deck'[j] = deck[j]]_vars

\* A tab reported progress on a card another identity is scratching.
C11_Witness ==
    \E p \in Clients :
        /\ Returned(p, "updateCardProgress", "rejected")
        /\ call[p].err = "Not your card"
        /\ deck[Target(p)].status = "scratching"
        /\ deck[Target(p)].lockedBy \notin {None, uid[p]}

\* C12: the write of an updateCardProgress(cardId, p) that commits is the deck
\* it read with that card's progress set to p, raised to 0 and lowered to 100,
\* and with no other field of any card changed.
C12_ProgressIsClampedAndFramed ==
    [][\A p \in Clients :
          (call[p].op = "updateCardProgress" /\ Commit(p))
          => LET x == call[p].progress
                 clamped == IF x < 0 THEN 0 ELSE IF x > 100 THEN 100 ELSE x
             IN  deck' = [deck EXCEPT ![Target(p)] = [@ EXCEPT !.progress = clamped]]]_vars

\* A progress report inside the range went through as it was.
C12_Witness ==
    \E p \in Clients :
        /\ Returned(p, "updateCardProgress", "resolved")
        /\ deck[Target(p)].status = "scratching"
        /\ deck[Target(p)].progress = 50
        /\ deck[Target(p)].lockedBy = uid[p]

Scratching(i) == i \in 1..Len(deck) /\ deck[i].status = "scratching"

\* C13: with time advancing and the scheduled job running, whatever the
\* clients do or stop doing, every card that is scratching under a lock whose
\* one-minute window ends before the model's clock does eventually is not
\* scratching any more.
C13_GuaranteedReclamation ==
    \A i \in DeckIds :
        (Scratching(i)
            /\ deck[i].lockedAt + STALE_TIMEOUT_MS < StartMs + MaxTicks * TickMs)
        ~> ~Scratching(i)

\* The locker never acted again after its lockCard returned true, and the
\* scheduled job completed the card (it alone leaves isRevealed unset).
C13_Witness ==
    /\ Returned(Caller, "lockCard", "true")
    /\ deck[Target(Caller)].status = "completed"
    /\ ~deck[Target(Caller)].isRevealed
    /\ deck[Target(Caller)].lockedBy = None

\* C14 as stated: on the committed deck, at one time, the client sweep (over
\* the ids it finds stale) and the scheduled sweep are each idempotent, leave
\* every completed card as it is, and give the same deck in either order.
C14_Original ==
    gameExists =>
        LET F(d) == forceCompleteStaleCards(TRUE, d, staleIds(d, now), now).deck
            C(d) == cleanupStaleLocks(d, now).deck
        IN  /\ F(F(deck)) = F(deck)
            /\ C(C(deck)) = C(deck)
            /\ \A i \in 1..Len(deck) :
                  deck[i].status = "completed"
                  => (F(deck)[i] = deck[i] /\ C(deck)[i] = deck[i])
            /\ F(C(deck)) = C(F(deck))

\* C15: the one write of a resetAllLocks that commits turns every scratching
\* card into an available card with no lock and progress 0, its other fields
\* kept, and leaves every other card as it was.
C15_ResetReleasesScratchingOnly ==
    [][\A p \in Clients :
          (call[p].op = "resetAllLocks" /\ Commit(p))
          => /\ Len(deck') = Len(deck)
             /\ \A i \in 1..Len(deck) :
                   deck'[i] = IF deck[i].status = "scratching"
                              THEN [deck[i] EXCEPT !.status = "available",
                                                   !.lockedBy = None,
                                                   !.lockedAt = NoTime,
                                                   !.progress = 0]
                              ELSE deck[i]]_vars

\* A reset committed, as the only write, while the lockCard of an identity
\* that held a card with progress of at least 90 was waiting to commit: the
\* card that call read as scratching, and would have completed, is available
\* with progress 0 and no lock.
C15_Witness ==
    \E p, q \in Clients :
        /\ Returned(p, "resetAllLocks", "resolved")
        /\ call[p].wrote
        /\ call[q].pc = "commit"
        /\ call[q].op = "lockCard"
        /\ version = call[q].readVersion + 1
        /\ \E i \in 1..Len(deck) :
              /\ call[q].newDeck[i].status = "completed"
              /\ deck[i].status = "available"
              /\ deck[i].progress = 0
              /\ deck[i].lockedBy = None
              /\ deck[i].lockedAt = NoTime

\* C16: in every reachable state a card of the committed deck has a lockedBy,
\* and has a lockedAt, exactly when its status is scratching.
C16_LockIffScratching ==
    \A i \in 1..Len(deck) :
        /\ (deck[i].status = "scratching") <=> (deck[i].lockedBy # None)
        /\ (deck[i].status = "scratching") <=> (deck[i].lockedAt # NoTime)

\* One card is locked while another, which the scheduled job completed, has
\* no lock left.
C16_Witness ==
    \E i, j \in 1..Len(deck) :
        /\ deck[i].status = "scratching"
        /\ deck[i].lockedBy # None /\ deck[i].lockedAt # NoTime
        /\ deck[j].status = "completed" /\ ~deck[j].isRevealed
        /\ deck[j].lockedBy = None /\ deck[j].lockedAt = NoTime

\* The steps that may take card i, scratching, to completed: the commit of a
\* completeCard of i by its locker, of a lockCard of another card by its
\* locker when i has progress of at least 90, or of a client sweep once the
\* lock is older than the client window; or the scheduled job once the lock is
\* older than its own.
CompletionOf(i) ==
    \/ \E p \in Clients :
          /\ Commit(p)
          /\ \/ /\ call[p].op = "completeCard"
                /\ uid[p] = deck[i].lockedBy /\ Target(p) = i
             \/ /\ call[p].op = "lockCard"
                /\ uid[p] = deck[i].lockedBy /\ Target(p) # i
                /\ deck[i].progress >= AutoCompleteAt
             \/ /\ call[p].op = "forceCompleteStaleCards"
                /\ now - deck[i].lockedAt > ClientStaleMs
    \/ CleanupStaleLocks /\ now - deck[i].lockedAt > STALE_TIMEOUT_MS

ResetCommit == \E p \in Clients : call[p].op = "resetAllLocks" /\ Commit(p)

ReadBy(p) ==
    /\ call[p].pc # "commit"
    /\ call'[p] # call[p]
    /\ call'[p].pc \in {"done", "commit"}

\* Card i of deck d is scratching and locked by identity u.
Holds(d, i, u) == i <= Len(d) /\ d[i].status = "scratching" /\ d[i].lockedBy = u

\* C18: an updateCardProgress or completeCard by identity X on a card commits
\* only while X's lock on it is in force; X's lock on a card comes into force
\* only in the commit of a lockCard of that card by X, and a step that takes
\* the card out of scratching clears it; and an attempt of X that reads the
\* card without X's lock, as after a force-complete or a reset and a re-claim
\* by Y, is rejected and writes nothing.
C18_LockPrecedesUse ==
    [][/\ version' # version
          => /\ \A p \in Clients :
                   (call[p].op \in {"updateCardProgress", "completeCard"} /\ Commit(p))
                   => Holds(deck, Target(p), uid[p])
             /\ \A i \in 1..Len(deck'), u \in Identities :
                   /\ (Holds(deck', i, u) /\ ~Holds(deck, i, u))
                      => \E q \in Clients :
                            /\ call[q].op = "lockCard" /\ uid[q] = u
                            /\ Commit(q) /\ Target(q) = i
                   /\ (Holds(deck, i, u) /\ deck'[i].status # "scratching")
                      => deck'[i].lockedBy = None
       /\ \A p \in Clients :
             (ReadBy(p) /\ call'[p].op \in {"updateCardProgress", "completeCard"})
             => LET i == FindIndex({k \in 1..Len(deck) : deck[k].id = call'[p].cardId})
                IN  (i # 0 /\ deck[i].lockedBy # uid[p])
                    => /\ call'[p].pc = "done" /\ call'[p].result = "rejected"
                       /\ DocUnchanged]_vars

\* A completeCard lost its commit, read again and was rejected: the card it
\* had locked is now scratching under another identity.
C18_Witness ==
    \E p \in Clients :
        /\ Returned(p, "completeCard", "rejected")
        /\ call[p].attempts >= 1
        /\ call[p].err = "Not your card"
        /\ deck[Target(p)].status = "scratching"
        /\ deck[Target(p)].lockedBy \notin {None, uid[p]}

\* The values the clock has taken so far.
Past == {t \in {StartMs + k * TickMs : k \in 0..MaxTicks} : t <= now}

\* C19: no committed write is lost to a concurrent one. The deck a commit
\* writes is the operation's update function applied to the deck as last
\* committed, so it keeps the effect of every write committed before it, and a
\* lockCard, updateCardProgress or completeCard leaves the cards of other
\* identities as they were; a call that runs out of retries returns its
\* failure and has written nothing.
C19_NoLostUpdate ==
    [][\A p \in Clients :
          /\ (version' # version /\ call'[p].wrote /\ Commit(p))
             => /\ \E t \in Past :
                      LET r == updateFunction(call[p], uid[p], gameExists, deck, t)
                      IN  r.throw = "" /\ r.update /\ deck' = r.deck
                /\ call[p].op \in {"lockCard", "updateCardProgress", "completeCard"}
                   => \A j \in 1..Len(deck) :
                         (j # Target(p) /\ deck[j].lockedBy # uid[p])
                         => deck'[j] = deck[j]
          /\ (version' = version /\ call[p].pc = "commit" /\ call'[p].pc = "done" /\ Abort(p))
             => /\ DocUnchanged
                /\ call'[p].pc = "done" /\ call'[p].result = Failed(call[p].op)
                /\ ~call'[p].wrote]_vars

\* A lockCard lost a commit, read again and won: its card is scratching under
\* the caller while a card the other identity locked is still scratching
\* under that identity.
C19_Witness ==
    \E p \in Clients :
        /\ Returned(p, "lockCard", "true") /\ call[p].wrote
        /\ call[p].attempts >= 1
        /\ Holds(deck, Target(p), uid[p])
        /\ \E j \in 1..Len(deck) :
              /\ j # Target(p)
              /\ deck[j].status = "scratching"
              /\ deck[j].lockedBy \notin {None, uid[p]}

\* C20: an operation that does not find what it names writes nothing. With no
\* game document, lockCard returns false, updateCardProgress, completeCard and
\* resetAllLocks are rejected, forceCompleteStaleCards returns, and the
\* scheduled job does nothing: only a publish by the admin creates the
\* document. With a document that has no card of the given id, lockCard
\* returns false and updateCardProgress and completeCard are rejected. In each
\* case the document is left as it was.
C20_NotFoundWritesNothing ==
    [][/\ ~gameExists => (SaveGameToCloud \/ DocUnchanged)
       /\ \A p \in Clients :
             ReadBy(p)
             => LET c == call'[p]
                    i == FindIndex({k \in 1..Len(deck) : deck[k].id = c.cardId})
                    missingCard == /\ gameExists /\ i = 0
                                   /\ c.op \in {"lockCard", "updateCardProgress",
                                                "completeCard"}
                IN  (~gameExists \/ missingCard)
                    => /\ c.pc = "done" /\ ~c.wrote
                       /\ c.result = IF c.op = "forceCompleteStaleCards"
                                     THEN "resolved" ELSE Failed(c.op)
                       /\ DocUnchanged]_vars

\* The sweep was called with ids to complete and found no game document.
C20_Witness ==
    /\ ~gameExists
    /\ Returned(Caller, "forceCompleteStaleCards", "resolved")
    /\ call[Caller].staleCardIds # {}
    /\ ~call[Caller].wrote
    /\ version = 0

\* C21: when ensureAuth cannot obtain an identity, a lockCard,
\* updateCardProgress or completeCard is rejected in the step that starts it,
\* with no transaction read or write and the document unchanged; no
\* transaction of these operations ever runs for a tab without an identity,
\* and no card is ever scratching under an absent identity.
C21_FailClosedWithoutIdentity ==
    [][/\ \A p \in Clients :
             /\ (uid[p] = None /\ call'[p] # call[p] /\ call'[p].op # "none")
                => /\ call'[p].op \in {"lockCard", "updateCardProgress", "completeCard"}
                   /\ call'[p].pc = "done" /\ call'[p].result = "rejected"
                   /\ call'[p].err = "Sign-in failed"
                   /\ call'[p].attempts = 0 /\ ~call'[p].wrote
                   /\ DocUnchanged
             /\ call'[p].pc \in {"get", "commit"} => uid[p] # None
       /\ \A i \in 1..Len(deck') :
             deck'[i].status = "scratching" => deck'[i].lockedBy \in Identities]_vars

\* A tab without an identity asked to complete a card that the other tab,
\* signed in, has locked: the call was rejected and the lock is as it was.
C21_Witness ==
    \E p \in Clients :
        /\ uid[p] = None
        /\ Returned(p, "completeCard", "rejected")
        /\ call[p].err = "Sign-in failed"
        /\ Target(p) # 0
        /\ deck[Target(p)].status = "scratching"
        /\ deck[Target(p)].lockedBy \in Identities

\* The number of cards of deck d that carry totalPrizeAmount a.
Carrying(d, a) == Cardinality({k \in 1..Len(d) : d[k].totalPrizeAmount = a})

\* C22 as stated: for every config with a positive totalCards and tiers of
\* non-negative count and amount, the deck generateDeck returns has exactly
\* totalCards cards, for each tier exactly count of them carry that tier's
\* amount, and every other card carries 0.
C22_Original ==
    draft.pc = "done"
    => LET tiers == draft.config.tiers
       IN  /\ Len(draft.deck) = draft.config.totalCards
           /\ \A t \in 1..Len(tiers) :
                 Carrying(draft.deck, tiers[t].amount) = tiers[t].count
           /\ \A k \in 1..Len(draft.deck) :
                 \/ draft.deck[k].totalPrizeAmount = 0
                 \/ \E t \in 1..Len(tiers) :
                       tiers[t].amount = draft.deck[k].totalPrizeAmount

\* C23: in every card createCardResult returns, for every outcome of its
\* draws, each of the two rows has my and house in 1..9, my greater than house
\* when the row's isWin is true and smaller when it is false, never equal.
C23_RowsAreStrict ==
    draft.pc = "card"
    => /\ Len(draft.card.games) = 2
       /\ \A k \in 1..2 :
             LET row == draft.card.games[k]
             IN  /\ row.my \in 1..9 /\ row.house \in 1..9
                 /\ row.isWin => row.my > row.house
                 /\ ~row.isWin => row.my < row.house
                 /\ row.my # row.house

\* The closest rows: a losing first row 8 against 9, a winning second row 9
\* against 8.
C23_Witness ==
    /\ draft.pc = "card"
    /\ ~draft.card.games[1].isWin
    /\ draft.card.games[1].my = 8 /\ draft.card.games[1].house = 9
    /\ draft.card.games[2].isWin
    /\ draft.card.games[2].my = 9 /\ draft.card.games[2].house = 8

\* The prizes of the slots of card c that win: the two rows and the bonus.
WonPrizes(c) ==
    <<IF c.games[1].isWin THEN c.games[1].prize ELSE 0,
      IF c.games[2].isWin THEN c.games[2].prize ELSE 0,
      IF c.isBonusWin THEN c.bonusPrize ELSE 0>>

WinningSlots(c) ==
    {k \in 1..3 : IF k = 3 THEN c.isBonusWin ELSE c.games[k].isWin}

\* C24: for every winning card createCardResult makes with prize amount a,
\* totalPrizeAmount is the sum of prize over the rows with isWin plus
\* bonusPrize when isBonusWin, and that sum is a exactly: either one slot
\* wins and carries a, or two distinct slots win and carry ceil(a/2) and
\* a - ceil(a/2). The prizes shown on rows that do not win count for nothing.
C24_TotalIsTheTierAmount ==
    (draft.pc = "card" /\ draft.card.isWin)
    => LET c == draft.card
           a == draft.prizeAmount
           won == WonPrizes(c)
           part1 == (a + 1) \div 2
       IN  /\ c.totalPrizeAmount = won[1] + won[2] + won[3]
           /\ c.totalPrizeAmount = a
           /\ \/ \E k \in 1..3 : WinningSlots(c) = {k} /\ won[k] = a
              \/ /\ a >= 20
                 /\ \E k, m \in 1..3 :
                       /\ k # m /\ WinningSlots(c) = {k, m}
                       /\ won[k] = part1 /\ won[m] = a - part1

\* A prize of 25 split over the first row, 13, and the bonus, 12, with a decoy
\* on the second row.
C24_Witness ==
    /\ draft.pc = "card" /\ draft.card.isWin /\ draft.prizeAmount = 25
    /\ draft.card.games[1].isWin /\ draft.card.games[1].prize = 13
    /\ draft.card.isBonusWin /\ draft.card.bonusPrize = 12
    /\ ~draft.card.games[2].isWin /\ draft.card.games[2].prize > 0
    /\ draft.card.totalPrizeAmount = 25

\* C25 as stated: every card generateDeck returns has status available and
\* no lockedBy or lockedAt, and the card at index i (from 0) has id i + 1, so
\* that the ids are 1..totalCards, each once.
C25_Original ==
    draft.pc = "done"
    => /\ \A k \in 1..Len(draft.deck) :
             LET c == draft.deck[k]
             IN  /\ "status" \in DOMAIN c /\ c.status = "available"
                 /\ "lockedBy" \notin DOMAIN c /\ "lockedAt" \notin DOMAIN c
                 /\ c.id = k
       /\ {draft.deck[k].id : k \in 1..Len(draft.deck)} = 1..draft.config.totalCards

\* C26: a snapshot, once saveCard has created it under its generated id, is
\* never modified: whatever step is taken on the canonical document (lockCard,
\* updateCardProgress, completeCard, a sweep, resetAllLocks, saveGameToCloud),
\* getCard returns for every existing id what it returned before; and saveCard
\* adds one snapshot under an id that was not in use and leaves the existing
\* snapshots and the canonical document as they were.
C26_SnapshotsAreImmutable ==
    [][/\ \A id \in DOMAIN cards :
             /\ getCard(cards', id) # NoSnapshot
             /\ getCard(cards', id) = getCard(cards, id)
       /\ cards' # cards
          => /\ SaveCard
             /\ DocUnchanged
             /\ \E id \in DOMAIN cards' :
                   /\ getCard(cards, id) = NoSnapshot
                   /\ DOMAIN cards' = DOMAIN cards \cup {id}
                   /\ getCard(cards', id).deck = deck]_vars

\* Two snapshots taken at different moments of a card's life: the first shows
\* it scratching, the second completed, as the canonical deck has it now.
C26_Witness ==
    /\ Len(cards) = 2
    /\ Len(getCard(cards, 1).deck) = Len(deck)
    /\ Len(getCard(cards, 2).deck) = Len(deck)
    /\ \E i \in 1..Len(deck) :
          /\ getCard(cards, 1).deck[i].status = "scratching"
          /\ getCard(cards, 2).deck[i].status = "completed"
          /\ deck[i].status = "completed"

\* C27: in every reachable state of the canonical deck, a card's isPlayed is
\* true exactly when its status is completed, and so is it in every write a
\* transaction has prepared (a claim, an auto-resolve, a completion, a sweep,
\* a reset).
C27_PlayedIffCompleted ==
    /\ \A i \in 1..Len(deck) : deck[i].isPlayed <=> deck[i].status = "completed"
    /\ \A p \in Clients :
          call[p].pc = "commit"
          => \A i \in 1..Len(call[p].newDeck) :
                call[p].newDeck[i].isPlayed <=> call[p].newDeck[i].status = "completed"

\* The owner's completeCard has just completed a card that is played, next to
\* a card that is not completed and not played.
C27_Witness ==
    \E p \in Clients :
        /\ Returned(p, "completeCard", "resolved") /\ call[p].wrote
        /\ deck[Target(p)].status = "completed" /\ deck[Target(p)].isPlayed
        /\ \E j \in 1..Len(deck) : deck[j].status # "completed" /\ ~deck[j].isPlayed

\* C28 as stated: for a scratching card that every path would complete (its
\* lock older than both windows), completeCard by the owner, the client sweep
\* and the scheduled job leave the card with the same field values, and so
\* does the auto-resolve of the owner's lockCard of an available card when the
\* progress is at least 90: completed, played, revealed, progress 100, no lock.
C28_Original ==
    \A i \in 1..Len(deck) :
        (gameExists /\ deck[i].status = "scratching"
            /\ now - deck[i].lockedAt > STALE_TIMEOUT_MS)
        => LET owner == deck[i].lockedBy
               byOwner == completeCard(TRUE, deck, owner, deck[i].id).deck[i]
               bySweep == forceCompleteStaleCards(TRUE, deck, {deck[i].id}, now).deck[i]
               byJob == cleanupStaleLocks(deck, now).deck[i]
           IN  /\ byOwner = Completed(deck[i])
               /\ bySweep = byOwner
               /\ byJob = byOwner
               /\ \A j \in 1..Len(deck) :
                     (deck[i].progress >= AutoCompleteAt /\ deck[j].status = "available")
                     => lockCard(TRUE, deck, owner, deck[j].id, now).deck[i] = byOwner

\* C29 as stated: a scratching card whose lockedAt is missing is selected by
\* both sweeps, the scan of useCards with forceCompleteStaleCards and the
\* scheduled cleanupStaleLocks, each of which completes it.
C29_Original ==
    \A i \in 1..Len(deck) :
        (deck[i].status = "scratching" /\ deck[i].lockedAt = NoTime)
        => /\ deck[i].id \in staleIds(deck, now)
           /\ forceCompleteStaleCards(TRUE, deck, staleIds(deck, now), now).deck[i].status
                 = "completed"
           /\ cleanupStaleLocks(deck, now).deck[i].status = "completed"

\* C30: updateCardProgress never renews a lock. A committed updateCardProgress
\* leaves every lockedAt as it was, and a card's lockedAt is set only in the
\* commit of a lockCard of that card; so whatever progress its owner has
\* reported, a scratching card whose lock is older than a sweep's window is
\* completed by that sweep; and once a card is completed, an updateCardProgress
\* or completeCard that reads it is rejected and writes nothing.
C30_ProgressDoesNotRenew ==
    [][/\ version' # version
          => /\ \A p \in Clients :
                   (call[p].op = "updateCardProgress" /\ Commit(p))
                   => \A i \in 1..Len(deck) : deck'[i].lockedAt = deck[i].lockedAt
             /\ \A i \in 1..Len(deck') :
                   (deck'[i].lockedAt # NoTime /\ deck'[i].lockedAt # deck[i].lockedAt)
                   => \E p \in Clients :
                         call[p].op = "lockCard" /\ Commit(p) /\ Target(p) = i
       /\ (version' # version \/ now' # now)
          => \A i \in 1..Len(deck') :
                deck'[i].status = "scratching"
                => /\ now' - deck'[i].lockedAt > STALE_TIMEOUT_MS
                      => cleanupStaleLocks(deck', now').deck[i].status = "completed"
                   /\ now' - deck'[i].lockedAt > ClientStaleMs
                      => /\ deck'[i].id \in staleIds(deck', now')
                         /\ forceCompleteStaleCards(TRUE, deck', staleIds(deck', now'),
                                                    now').deck[i].status = "completed"
       /\ \A p \in Clients :
             (ReadBy(p) /\ call'[p].op \in {"updateCardProgress", "completeCard"})
             => LET i == FindIndex({k \in 1..Len(deck) : deck[k].id = call'[p].cardId})
                IN  (i # 0 /\ deck[i].status = "completed")
                    => /\ call'[p].pc = "done" /\ call'[p].result = "rejected"
                       /\ DocUnchanged]_vars

\* The owner locked a card and reported progress, and was reporting again when
\* the scheduled job completed the card: the report read again and was
\* rejected. Three writes, the other card untouched.
C30_Witness ==
    \E p \in Clients :
        /\ Returned(p, "updateCardProgress", "rejected")
        /\ call[p].attempts >= 1
        /\ version = 3
        /\ deck[Target(p)].status = "completed" /\ ~deck[Target(p)].isRevealed
        /\ \A j \in 1..Len(deck) : j # Target(p) => deck[j] = Card(j)

\* C31: a lockCard of card t by identity X that succeeds wrote, in one commit,
\* t as it was read but scratching, locked by X, stamped with the Date.now()
\* of the attempt that committed and with progress 0: its id and its outcome
\* are as before. The only other card the write changes is the one X held
\* with progress of at least 90, which it completes; every other card, those
\* of other identities included, is as it was, and so is the deck's length.
C31_LockEffect ==
    [][\A p \in Clients :
          /\ (version' # version /\ call[p].op = "lockCard" /\ Commit(p))
             => LET t == Target(p)
                    X == uid[p]
                IN  /\ t # 0 /\ deck[t].status = "available"
                    /\ Returned(p, "lockCard", "true")'
                    /\ Len(deck') = Len(deck)
                    /\ deck'[t].lockedAt \in Past
                    /\ deck'[t] = [deck[t] EXCEPT !.status = "scratching", !.lockedBy = X,
                                                 !.lockedAt = deck'[t].lockedAt,
                                                 !.progress = 0]
                    /\ \A i \in 1..Len(deck) :
                          i # t
                          => \/ deck'[i] = deck[i]
                             \/ /\ Holds(deck, i, X)
                                /\ deck[i].progress >= AutoCompleteAt
                                /\ deck'[i] = Completed(deck[i])
                    /\ \A i \in 1..Len(deck) :
                          deck[i].lockedBy \notin {None, X} => deck'[i] = deck[i]
          /\ (ReadBy(p) /\ call'[p].op = "lockCard" /\ call'[p].pc = "commit")
             => LET t == FindIndex({k \in 1..Len(deck) : deck[k].id = call'[p].cardId})
                IN  /\ t # 0
                    /\ call'[p].newDeck[t].lockedAt = now
                    /\ call'[p].newDeck[t].totalPrizeAmount = deck[t].totalPrizeAmount]_vars

\* The winning card was claimed by one identity while the other identity's
\* card stayed scratching under it: the claimed card kept its prize and is
\* otherwise the clean card with the lock on it.
C31_Witness ==
    \E p \in Clients :
        /\ Returned(p, "lockCard", "true") /\ call[p].wrote
        /\ Target(p) = 1
        /\ deck[1] = [Card(1) EXCEPT !.status = "scratching", !.lockedBy = uid[p],
                                     !.lockedAt = now]
        /\ deck[1].totalPrizeAmount = 100
        /\ deck[2].status = "scratching" /\ deck[2].lockedBy \notin {None, uid[p]}
        /\ now > StartMs

\* The positions of deck d that call c, a sweep or a reset, would change when
\* its update function runs at time t.
Qualifying(c, d, t) ==
    {i \in 1..Len(d) :
        /\ d[i].status = "scratching"
        /\ c.op = "forceCompleteStaleCards"
           => (d[i].id \in c.staleCardIds /\ isStale(d[i], t))}

\* C32: the sweeps and the reset write only on change. A
\* forceCompleteStaleCards or resetAllLocks whose attempt finds no card to
\* change (or whose id list is empty) returns with the document, its version
\* included, untouched, and one that prepares a write changes a card; the
\* commit of either changes at least one card, and so does every write of
\* cleanupStaleLocks, which writes only when a card qualifies. A transaction
\* of another tab that waits on its commit is left as it was by a sweep or
\* reset that writes nothing: the version it read is still the current one.
C32_WriteOnlyOnChange ==
    [][/\ \A p \in Clients :
             (ReadBy(p) /\ call'[p].op \in {"forceCompleteStaleCards", "resetAllLocks"})
             => LET c == call'[p]
                IN  /\ DocUnchanged
                    /\ \A q \in Clients \ {p} :
                          /\ call'[q] = call[q]
                          /\ (call[q].pc = "commit" /\ call[q].readVersion = version)
                             => call'[q].readVersion = version'
                    /\ Qualifying(c, deck, now) = {}
                       => /\ c.pc = "done" /\ c.result = "resolved" /\ ~c.wrote
                    /\ c.pc = "commit"
                       => /\ Qualifying(c, deck, now) # {}
                          /\ \A i \in 1..Len(deck) :
                                c.newDeck[i] # deck[i] <=> i \in Qualifying(c, deck, now)
       /\ version' # version
          => /\ \A p \in Clients :
                   (call[p].op \in {"forceCompleteStaleCards", "resetAllLocks"} /\ Commit(p))
                   => \E i \in 1..Len(deck) : deck'[i] # deck[i]
             /\ call' = call
                => (CleanupStaleLocks /\ \E i \in 1..Len(deck) : deck'[i] # deck[i])
       /\ cleanupStaleLocks(deck, now).update
          <=> \E i \in 1..Len(deck) :
                 /\ deck[i].status = "scratching" /\ deck[i].lockedAt # NoTime
                 /\ now - deck[i].lockedAt > STALE_TIMEOUT_MS
       /\ ~cleanupStaleLocks(deck, now).update => cleanupStaleLocks(deck, now).deck = deck]_vars

\* A sweep lost its commit to a reset, read again, found nothing to complete
\* and returned without writing, while the other tab's lockCard, which read
\* the current version, waits on its commit.
C32_Witness ==
    \E p, q \in Clients :
        /\ Returned(p, "forceCompleteStaleCards", "resolved")
        /\ ~call[p].wrote /\ call[p].attempts >= 1
        /\ call[q].op = "lockCard" /\ call[q].pc = "commit"
        /\ call[q].readVersion = version
        /\ \A i \in 1..Len(deck) : deck[i].status = "available"

\* The document holds the deck generateDeck returned, as published and not
\* written since.
Fresh == draft.pc = "published" /\ deck = saveGameToCloud(draft.deck)

\* C33 as stated: once a freshly generated deck is published over the prior
\* document, no card is locked or scratching; a lockCard of any card id
\* 1..totalCards by an identity that holds no card succeeds (its attempt
\* prepares the write instead of returning false); and an updateCardProgress
\* or completeCard by a locker of the previous deck is rejected and writes
\* nothing.
C33_Original ==
    [][/\ Fresh' => \A i \in 1..Len(deck') :
                        /\ deck'[i].lockedBy = None /\ deck'[i].lockedAt = NoTime
                        /\ deck'[i].status # "scratching"
       /\ \A p \in Clients :
             (Fresh /\ ReadBy(p))
             => /\ (call'[p].op = "lockCard" /\ call'[p].cardId \in 1..Len(deck)
                       /\ HeldBy(uid[p]) = {})
                   => call'[p].pc = "commit"
                /\ call'[p].op \in {"updateCardProgress", "completeCard"}
                   => /\ call'[p].pc = "done" /\ call'[p].result = "rejected"
                      /\ DocUnchanged]_vars

\* C34 as stated: a handleSaveToCloud that publishes the admin tab's current
\* copy of the deck preserves the statuses the document holds: in whatever
\* interleaving with the tabs' lockCard, completeCard and sweep transactions,
\* the publish leaves a completed card completed and a scratching card
\* scratching under its locker, so that no committed transition is dropped.
C34_Original ==
    [][(version' # version /\ call' = call /\ HandleSaveToCloud)
          => \A i \in 1..Len(deck) :
                /\ i <= Len(deck')
                /\ deck[i].status = "completed" => deck'[i].status = "completed"
                /\ deck[i].status = "scratching"
                   => /\ deck'[i].status = "scratching"
                      /\ deck'[i].lockedBy = deck[i].lockedBy]_vars

\* C35: updateCardProgress is idempotent and not monotonic. An attempt by the
\* owner on a scratching card is accepted whatever the stored progress, and
\* prepares the deck as read with that card's progress set to the clamped
\* value: the deck as it is when the value is the stored one (a second call
\* with the same value changes nothing), a lower progress when the value is
\* lower. Its commit stores exactly that; and when it takes a card from 90 or
\* more to below 90, a lockCard of another card by the owner is rejected again
\* on the deck it leaves.
C35_ProgressIsLastWrite ==
    [][\A p \in Clients :
          /\ (ReadBy(p) /\ call'[p].op = "updateCardProgress")
             => LET c == call'[p]
                    t == FindIndex({k \in 1..Len(deck) : deck[k].id = c.cardId})
                IN  (gameExists /\ t # 0 /\ Holds(deck, t, uid[p]))
                    => LET v == Min(100, Max(0, c.progress))
                       IN  /\ c.pc = "commit"
                           /\ c.newDeck = [deck EXCEPT ![t] = [@ EXCEPT !.progress = v]]
                           /\ v = deck[t].progress => c.newDeck = deck
                           /\ v < deck[t].progress => c.newDeck[t].progress < deck[t].progress
                           /\ updateCardProgress(TRUE, c.newDeck, uid[p], c.cardId,
                                                 c.progress).deck = c.newDeck
          /\ (version' # version /\ call[p].op = "updateCardProgress" /\ Commit(p))
             => LET t == Target(p)
                    v == Min(100, Max(0, call[p].progress))
                IN  /\ deck'[t].progress = v
                    /\ \A i \in 1..Len(deck) : i # t => deck'[i] = deck[i]
                    /\ (deck[t].progress >= AutoCompleteAt /\ v < AutoCompleteAt)
                       => \A j \in 1..Len(deck') :
                             j # t
                             => lockCard(TRUE, deck', uid[p], deck'[j].id, now).throw
                                   = "User already has an active card"]_vars

\* The owner, whose card stands at 100, reports 50: the attempt was accepted
\* and waits on its commit with the card at 50, below the threshold, while
\* another card is available.
C35_Witness ==
    \E p \in Clients :
        /\ call[p].op = "updateCardProgress" /\ call[p].pc = "commit"
        /\ call[p].readVersion = version
        /\ Target(p) # 0
        /\ Holds(deck, Target(p), uid[p])
        /\ deck[Target(p)].progress = 100
        /\ call[p].newDeck[Target(p)].progress = 50
        /\ \E j \in 1..Len(deck) : deck[j].status = "available"

\* C36 as stated: for every card the generator makes, a winner of a tier of
\* any non-negative amount (0 included) or a padding card, isWin is true
\* exactly when totalPrizeAmount is positive.
C36_Original ==
    draft.pc = "card" => (draft.card.isWin <=> draft.card.totalPrizeAmount > 0)

\* Deck d2 has the cards of d1 in the same places, each with its id and its
\* outcome.
SameOutcomes(d1, d2) ==
    /\ Len(d2) = Len(d1)
    /\ \A i \in 1..Len(d1) :
          d2[i].id = d1[i].id /\ d2[i].totalPrizeAmount = d1[i].totalPrizeAmount

\* C37: no operation of the state machine alters a card's outcome or the
\* deck's shape. The admin only ever publishes cleanDeck here, so the claim
\* is that whatever lockCard, updateCardProgress, completeCard,
\* forceCompleteStaleCards, resetAllLocks and cleanupStaleLocks have written
\* since, and whatever write one of them has prepared, the deck has the
\* length of the published one, the same ids in the same order, and every
\* card's outcome as published.
C37_OutcomesAreFixed ==
    /\ gameExists => SameOutcomes(cleanDeck, deck)
    /\ \A p \in Clients :
          call[p].pc = "commit" => SameOutcomes(cleanDeck, call[p].newDeck)

\* The winning card was claimed, left to go stale and completed by a sweep
\* while the other card is being scratched: both are in their places with
\* their ids and prizes.
C37_Witness ==
    \E p \in Clients :
        /\ Returned(p, "forceCompleteStaleCards", "resolved") /\ call[p].wrote
        /\ Len(deck) = 2
        /\ deck[1].id = 1 /\ deck[1].status = "completed" /\ deck[1].totalPrizeAmount = 100
        /\ deck[2].id = 2 /\ deck[2].status = "scratching" /\ deck[2].totalPrizeAmount = 0
        /\ version = 3

\* C38 as stated: in every state the document reaches, every card's progress
\* is within 0..100 and is 100 when the card is completed; and a card that has
\* just been claimed, or just been returned to available, has progress 0.
C38_Original ==
    [][\A i \in 1..Len(deck') :
          /\ deck'[i].progress \in 0..100
          /\ deck'[i].status = "completed" => deck'[i].progress = 100
          /\ (i <= Len(deck) /\ deck'[i].status # deck[i].status
                 /\ deck'[i].status \in {"scratching", "available"})
             => deck'[i].progress = 0]_vars

\* C39 as stated: while a tab shows a shared snapshot (view-only mode),
\* selecting a card issues no lockCard, updateCardProgress or completeCard
\* against games/default: the viewing tab has no such call, and no step of
\* its own changes the canonical document.
C39_Original ==
    [][/\ call'[Viewer].op \notin {"lockCard", "updateCardProgress", "completeCard"}
       /\ call'[Viewer] # call[Viewer] => DocUnchanged]_vars

====
